---- MODULE Spec2Model ----
(***************************************************************************)
(* Model of the layout analyses of layout-audit (src/src/analysis):        *)
(* analyze_layout (padding.rs), analyze_false_sharing (false_sharing.rs)   *)
(* and optimize_layout (optimize.rs), applied to a StructLayout            *)
(* (types.rs).  Strings that are compared or sorted (member names) are     *)
(* sequences of character codes; type names are only tested for equality   *)
(* and for the atomic patterns and are TLA+ strings.  Option<u64> is the   *)
(* value None or a natural number.                                         *)
(***************************************************************************)
EXTENDS Integers, Sequences, FiniteSets, TLC

VARIABLES pc, layout, cache_line_size, max_align, fs_a, fs_b, opt, opt2,
          old_layouts, new_layouts, diff,
          dwarf_unit, calls, resolved, structs

\* The arguments and the result of diff_layouts.
diffVars == <<old_layouts, new_layouts, diff>>

\* The debug information of one unit, the pending calls of the type
\* resolver, its result, and the structs find_structs has collected.
dwarfVars == <<dwarf_unit, calls, resolved, structs>>

vars == <<pc, layout, cache_line_size, max_align, fs_a, fs_b, opt, opt2,
          old_layouts, new_layouts, diff, dwarf_unit, calls, resolved, structs>>

(***************************************************************************)
(* Bounds of the model.                                                    *)
(***************************************************************************)
\* Largest number of members of a generated layout.
MaxMembers == 3
\* Largest known member offset of a generated layout.
MaxOffset == 3
\* Largest known member size of a generated layout.
MaxSize == 3
\* Largest declared struct size of a generated layout.
MaxStructSize == 6
\* Largest known member offset of a layout given to the false-sharing analysis.
MaxFsOffset == 3
\* Largest known member size of a layout given to the false-sharing analysis.
MaxFsSize == 2
\* Largest known member offset of a layout given to the optimizer.
MaxOptOffset == 1
\* Largest known member size of a layout given to the optimizer.
MaxOptSize == 2
\* Largest number of members of a layout whose orderings are compared.
MaxUnits == 4
\* Largest member size of a layout whose orderings are compared.
MaxUnitSize == 3
\* Stand-in for u64::MAX: the value at which the saturating operations stop.
U64_MAX == 255
\* Largest number of structs in a collection given to diff_layouts.
MaxStructs == 2

(***************************************************************************)
(* Option and integer helpers.                                             *)
(***************************************************************************)
None == -1

IsSome(x) == x # None

Min(a, b) == IF a <= b THEN a ELSE b

Max(a, b) == IF a >= b THEN a ELSE b

\* u64::saturating_add
SaturatingAdd(a, b) == Min(a + b, U64_MAX)

\* u64::saturating_sub
SaturatingSub(a, b) == IF a >= b THEN a - b ELSE 0

\* u64::div_ceil
DivCeil(a, b) == (a + b - 1) \div b

\* Stand-ins for i64::MAX and i64::MIN, scaled like U64_MAX.
I64_MAX == U64_MAX \div 2

I64_MIN == (-I64_MAX) - 1

\* Stand-in for u32::MAX, scaled like U64_MAX.
U32_MAX == U64_MAX \div 2

\* The arithmetic of an unchecked u64 operation in a build without overflow
\* checks: the result modulo 2^64.
WrapU64(x) == x % (U64_MAX + 1)

\* `x as u32` for a u64, and `x as i64` for a u64.
AsU32(x) == x % (U32_MAX + 1)

AsI64(x) == IF x > I64_MAX THEN x - (U64_MAX + 1) ELSE x

\* The arithmetic of an unchecked i64 operation in a build without overflow
\* checks.
WrapI64(x) ==
    IF x > I64_MAX THEN x - (U64_MAX + 1)
    ELSE IF x < I64_MIN THEN x + (U64_MAX + 1)
    ELSE x

RECURSIVE SumSeq(_)
SumSeq(s) == IF s = <<>> THEN 0 ELSE Head(s) + SumSeq(Tail(s))

\* Lexicographic order of two strings given as sequences of character codes.
RECURSIVE StrLess(_, _)
StrLess(a, b) ==
    IF b = <<>> THEN FALSE
    ELSE IF a = <<>> THEN TRUE
    ELSE IF Head(a) # Head(b) THEN Head(a) < Head(b)
    ELSE StrLess(Tail(a), Tail(b))

\* A stable sort (slice::sort_by, slice::sort_by_key), where less[i, j] tells
\* whether s[i] orders before s[j]: element i goes to the position counting
\* the elements that are smaller, or equal and earlier.
StableSort(s, less) ==
    LET n == Len(s)
        pos(i) == 1 + Cardinality({j \in 1..n :
                        \/ less[j, i]
                        \/ (~less[i, j] /\ j < i)})
    IN [k \in 1..n |-> s[CHOOSE i \in 1..n : pos(i) = k]]

(***************************************************************************)
(* types.rs                                                                *)
(***************************************************************************)
\* LayoutMetrics::default(); false_sharing is the empty tuple for None and
\* the one-element tuple of the analysis for Some.
DefaultMetrics ==
    [total_size |-> 0, useful_size |-> 0, padding_bytes |-> 0,
     padding_percentage |-> <<0, 1>>, cache_lines_spanned |-> 0,
     cache_line_density |-> <<0, 1>>, padding_holes |-> <<>>,
     partial |-> FALSE, false_sharing |-> <<>>]

\* MemberLayout::new followed by the bitfield attributes process_member sets.
MemberLayout(name, type_name, offset, size, bit_offset, bit_size) ==
    [name |-> name, type_name |-> type_name, offset |-> offset, size |-> size,
     bit_offset |-> bit_offset, bit_size |-> bit_size]

\* Option<SourceLocation>: the pair <<file, line>>, or the empty tuple for
\* None.
NoLocation == <<>>

\* StructLayout::new with the members extract_members attaches.
StructLayout(name, size, alignment, members) ==
    [name |-> name, size |-> size, alignment |-> alignment, members |-> members,
     metrics |-> DefaultMetrics, source_location |-> NoLocation]

\* extract_members sorts by offset, members without offset last
\* (sort_by_key on offset.unwrap_or(u64::MAX)).
OffsetSortKey(m) == IF IsSome(m.offset) THEN m.offset ELSE U64_MAX

SortedByOffset(ms) ==
    \A i \in 1..(Len(ms) - 1) : OffsetSortKey(ms[i]) <= OffsetSortKey(ms[i + 1])

(***************************************************************************)
(* padding.rs: analyze_layout                                              *)
(***************************************************************************)
\* The spans of the members with known offset and known, non-zero size
\* (the first loop), and whether any member was unresolved.
IsResolved(m) == IsSome(m.offset) /\ IsSome(m.size)

\* BuildSpans without the skip of zero-size members.
BuildSpansWithZeroSize(members) ==
    LET kept == SelectSeq(members, IsResolved)
    IN [i \in 1..Len(kept) |->
            [start |-> kept[i].offset,
             end |-> SaturatingAdd(kept[i].offset, kept[i].size),
             member_name |-> kept[i].name]]

BuildSpans(members) ==
    LET kept == SelectSeq(members, LAMBDA m : IsResolved(m) /\ m.size # 0)
    IN [i \in 1..Len(kept) |->
            [start |-> kept[i].offset,
             end |-> SaturatingAdd(kept[i].offset, kept[i].size),
             member_name |-> kept[i].name]]

\* IsPartial with the check of the size left out.
IsPartialOffsetOnly(members) ==
    \E i \in 1..Len(members) : ~IsSome(members[i].offset)

IsPartial(members) == \E i \in 1..Len(members) : ~IsResolved(members[i])

SpanLess(a, b) == a.start < b.start \/ (a.start = b.start /\ a.end < b.end)

SortSpans(spans) ==
    StableSort(spans, [i, j \in 1..Len(spans) |-> SpanLess(spans[i], spans[j])])

\* MergeStep without the test that the span ends at or after the region.
MergeStepAlwaysExtends(acc, span, partial) ==
    IF span.start > acc.current_end
    THEN [current_start |-> span.start, current_end |-> span.end,
          current_end_member |-> span.member_name,
          useful_size |-> SaturatingAdd(acc.useful_size,
                             SaturatingSub(acc.current_end, acc.current_start)),
          padding_holes |-> IF ~partial
                            THEN Append(acc.padding_holes,
                                     [offset |-> acc.current_end,
                                      size |-> span.start - acc.current_end,
                                      after_member |-> acc.current_end_member])
                            ELSE acc.padding_holes]
    ELSE [acc EXCEPT !.current_end = span.end,
                     !.current_end_member = span.member_name]

\* One iteration of the merge loop over the sorted spans.
MergeStep(acc, span, partial) ==
    IF span.start > acc.current_end
    THEN [current_start |-> span.start, current_end |-> span.end,
          current_end_member |-> span.member_name,
          useful_size |-> SaturatingAdd(acc.useful_size,
                             SaturatingSub(acc.current_end, acc.current_start)),
          padding_holes |-> IF ~partial
                            THEN Append(acc.padding_holes,
                                     [offset |-> acc.current_end,
                                      size |-> span.start - acc.current_end,
                                      after_member |-> acc.current_end_member])
                            ELSE acc.padding_holes]
    ELSE IF span.end >= acc.current_end
    THEN [acc EXCEPT !.current_end = span.end,
                     !.current_end_member = span.member_name]
    ELSE acc

RECURSIVE MergeLoop(_, _, _, _)
MergeLoop(acc, spans, i, partial) ==
    IF i > Len(spans) THEN acc
    ELSE MergeLoop(MergeStep(acc, spans[i], partial), spans, i + 1, partial)

\* The metrics analyze_layout stores; the caller has checked cache_line_size > 0.
ComputeMetrics(l, cls) ==
    LET spans == SortSpans(BuildSpans(l.members))
        partial == IsPartial(l.members)
        cache_lines_spanned == IF l.size > 0 THEN AsU32(DivCeil(l.size, cls)) ELSE 0
    IN IF spans = <<>>
       THEN [total_size |-> l.size, useful_size |-> 0, padding_bytes |-> 0,
             padding_percentage |-> <<0, 1>>,
             cache_lines_spanned |-> cache_lines_spanned,
             cache_line_density |-> <<0, 1>>, padding_holes |-> <<>>,
             partial |-> partial, false_sharing |-> <<>>]
       ELSE
         LET acc0 == [current_start |-> spans[1].start,
                      current_end |-> spans[1].end,
                      current_end_member |-> spans[1].member_name,
                      useful_size |-> 0, padding_holes |-> <<>>]
             acc == MergeLoop(acc0, spans, 2, partial)
             useful_size == SaturatingAdd(acc.useful_size,
                                SaturatingSub(acc.current_end, acc.current_start))
             padding_holes ==
                 IF ~partial /\ acc.current_end < l.size
                 THEN Append(acc.padding_holes,
                          [offset |-> acc.current_end,
                           size |-> l.size - acc.current_end,
                           after_member |-> acc.current_end_member])
                 ELSE acc.padding_holes
             padding_bytes ==
                 SumSeq([i \in 1..Len(padding_holes) |-> padding_holes[i].size])
             total_cache_bytes == cache_lines_spanned * cls
         IN [total_size |-> l.size, useful_size |-> useful_size,
             padding_bytes |-> padding_bytes,
             padding_percentage |->
                 IF l.size > 0 THEN <<padding_bytes * 100, l.size>> ELSE <<0, 1>>,
             cache_lines_spanned |-> cache_lines_spanned,
             cache_line_density |->
                 IF total_cache_bytes > 0
                 THEN <<useful_size * 100, total_cache_bytes>> ELSE <<0, 1>>,
             padding_holes |-> padding_holes,
             partial |-> partial, false_sharing |-> <<>>]

(***************************************************************************)
(* false_sharing.rs: analyze_false_sharing                                 *)
(***************************************************************************)
RECURSIVE FlattenSeq(_)
FlattenSeq(ss) == IF ss = <<>> THEN <<>> ELSE Head(ss) \o FlattenSeq(Tail(ss))

\* The type names of the model that contain one of ATOMIC_PATTERNS.
AtomicTypeNames == {"std::sync::atomic::AtomicU64"}

IsAtomicType(type_name) == type_name \in AtomicTypeNames

\* Last byte of the member (offset + size - 1, for size > 0), as a build
\* without overflow checks computes it.
EndOffset(offset, size) == WrapU64(offset + size - 1)

\* The filter_map closure: the AtomicMember of a qualifying member.
QualifiesAsAtomic(m) ==
    IsAtomicType(m.type_name) /\ IsSome(m.offset) /\ IsSome(m.size) /\ m.size # 0

AtomicMember(m, cls) ==
    [name |-> m.name, type_name |-> m.type_name, offset |-> m.offset,
     size |-> m.size,
     cache_line |-> m.offset \div cls,
     end_cache_line |-> EndOffset(m.offset, m.size) \div cls,
     spans_cache_lines |-> (EndOffset(m.offset, m.size) \div cls) > (m.offset \div cls)]

AtomicMembers(members, cls) ==
    LET kept == SelectSeq(members, QualifiesAsAtomic)
    IN [i \in 1..Len(kept) |-> AtomicMember(kept[i], cls)]

SpanningWarnings(atomics) ==
    LET spanning == SelectSeq(atomics, LAMBDA m : m.spans_cache_lines)
    IN [i \in 1..Len(spanning) |->
            [member |-> spanning[i].name, type_name |-> spanning[i].type_name,
             offset |-> spanning[i].offset, size |-> spanning[i].size,
             start_cache_line |-> spanning[i].cache_line,
             end_cache_line |-> spanning[i].end_cache_line,
             lines_spanned |-> spanning[i].end_cache_line - spanning[i].cache_line + 1]]

\* The keys of by_cache_line and the vector stored under one key: a member is
\* pushed under every line from cache_line to end_cache_line, in member order.
CacheLineKeys(atomics) ==
    UNION {atomics[i].cache_line .. atomics[i].end_cache_line : i \in 1..Len(atomics)}

LineMembers(atomics, line) ==
    SelectSeq(atomics, LAMBDA m : m.cache_line <= line /\ line <= m.end_cache_line)

\* The index pairs (i, j), i < j, in the order of the two nested loops.
PairsSeq(k) == FlattenSeq([i \in 1..k |-> [d \in 1..(k - i) |-> <<i, i + d>>]])

\* The pairs the loops visit when the map is iterated in the order `order`.
CandidatePairs(atomics, order) ==
    FlattenSeq([n \in 1..Len(order) |->
        LET members == LineMembers(atomics, order[n])
            pairs == PairsSeq(Len(members))
        IN IF Len(members) < 2 THEN <<>>
           ELSE [p \in 1..Len(pairs) |->
                    [cache_line |-> order[n],
                     a |-> members[pairs[p][1]],
                     b |-> members[pairs[p][2]]]]])

\* VisitPair recording the first member's starting line instead of the line
\* the pair was found on.
VisitPairStartLine(acc, cand) ==
    LET first == IF cand.a.offset <= cand.b.offset THEN cand.a ELSE cand.b
        second == IF cand.a.offset <= cand.b.offset THEN cand.b ELSE cand.a
        pair_key == <<first.name, second.name>>
        first_end == WrapU64(first.offset + first.size)
    IN IF pair_key \in acc.seen_pairs THEN acc
       ELSE [seen_pairs |-> acc.seen_pairs \cup {pair_key},
             warnings |-> Append(acc.warnings,
                 [member_a |-> first.name, member_b |-> second.name,
                  cache_line |-> first.cache_line,
                  gap_bytes |-> WrapI64(AsI64(second.offset) - AsI64(first_end))])]

\* The body of the inner loop: order the pair by offset, skip a pair whose
\* (name, name) key was seen, otherwise record the key and push the warning.
VisitPair(acc, cand) ==
    LET first == IF cand.a.offset <= cand.b.offset THEN cand.a ELSE cand.b
        second == IF cand.a.offset <= cand.b.offset THEN cand.b ELSE cand.a
        pair_key == <<first.name, second.name>>
        first_end == WrapU64(first.offset + first.size)
    IN IF pair_key \in acc.seen_pairs THEN acc
       ELSE [seen_pairs |-> acc.seen_pairs \cup {pair_key},
             warnings |-> Append(acc.warnings,
                 [member_a |-> first.name, member_b |-> second.name,
                  cache_line |-> cand.cache_line,
                  gap_bytes |-> WrapI64(AsI64(second.offset) - AsI64(first_end))])]

RECURSIVE VisitPairs(_, _, _)
VisitPairs(acc, cands, i) ==
    IF i > Len(cands) THEN acc
    ELSE VisitPairs(VisitPair(acc, cands[i]), cands, i + 1)

WarningLess(a, b) ==
    \/ a.cache_line < b.cache_line
    \/ /\ a.cache_line = b.cache_line
       /\ \/ StrLess(a.member_a, b.member_a)
          \/ (a.member_a = b.member_a /\ StrLess(a.member_b, b.member_b))

SortWarnings(warnings) ==
    StableSort(warnings,
        [i, j \in 1..Len(warnings) |-> WarningLess(warnings[i], warnings[j])])

\* The iteration orders a HashMap with these keys can have.
IterationOrders(keys) ==
    {o \in [1..Cardinality(keys) -> keys] :
        \A i, j \in 1..Cardinality(keys) : i # j => o[i] # o[j]}

\* analyze_false_sharing when by_cache_line is iterated in the order `order`.
FalseSharingAnalysis(l, cls, order) ==
    LET atomic_members == AtomicMembers(l.members, cls)
    IN IF atomic_members = <<>>
       THEN [atomic_members |-> <<>>, warnings |-> <<>>, spanning_warnings |-> <<>>]
       ELSE IF Len(atomic_members) < 2
       THEN [atomic_members |-> atomic_members, warnings |-> <<>>,
             spanning_warnings |-> SpanningWarnings(atomic_members)]
       ELSE [atomic_members |-> atomic_members,
             warnings |-> SortWarnings(
                 VisitPairs([seen_pairs |-> {}, warnings |-> <<>>],
                            CandidatePairs(atomic_members, order), 1).warnings),
             spanning_warnings |-> SpanningWarnings(atomic_members)]

\* The candidates the loops do not skip: the first of every (name, name) key.
PairKey(cand) ==
    IF cand.a.offset <= cand.b.offset THEN <<cand.a.name, cand.b.name>>
    ELSE <<cand.b.name, cand.a.name>>

VisitedPairs(cands) ==
    {i \in 1..Len(cands) : \A j \in 1..(i - 1) : PairKey(cands[j]) # PairKey(cands[i])}

\* second.offset as i64 - first_end as i64 leaves the range of i64.
GapOverflows(cand) ==
    LET first == IF cand.a.offset <= cand.b.offset THEN cand.a ELSE cand.b
        second == IF cand.a.offset <= cand.b.offset THEN cand.b ELSE cand.a
        gap == AsI64(second.offset) - AsI64(WrapU64(first.offset + first.size))
    IN gap > I64_MAX \/ gap < I64_MIN

\* An unchecked addition or subtraction of analyze_false_sharing overflows:
\* offset + size of a qualifying member, or the gap of a visited pair.
FalseSharingOverflows(l, cls, order) ==
    \/ \E i \in 1..Len(l.members) :
          QualifiesAsAtomic(l.members[i])
              /\ l.members[i].offset + l.members[i].size > U64_MAX
    \/ LET atomic_members == AtomicMembers(l.members, cls)
           cands == CandidatePairs(atomic_members, order)
       IN Len(atomic_members) >= 2 /\ \E i \in VisitedPairs(cands) : GapOverflows(cands[i])

\* offset / cache_line_size_u64 divides by zero.
FalseSharingDividesByZero(l, cls) ==
    cls = 0 /\ \E i \in 1..Len(l.members) : QualifiesAsAtomic(l.members[i])

(***************************************************************************)
(* optimize.rs: optimize_layout                                            *)
(***************************************************************************)
\* u64::next_power_of_two for n >= 1; a build without overflow checks returns
\* 0 when the power of two does not fit.
RECURSIVE PowerOfTwoFrom(_, _)
PowerOfTwoFrom(p, n) == IF p >= n THEN p ELSE PowerOfTwoFrom(2 * p, n)

NextPowerOfTwoOverflows(n) == PowerOfTwoFrom(1, n) > U64_MAX

NextPowerOfTwo(n) == IF NextPowerOfTwoOverflows(n) THEN 0 ELSE PowerOfTwoFrom(1, n)

\* infer_alignment is called for every member of known size.
OptimizeOverflows(l) ==
    \E i \in 1..Len(l.members) :
        /\ IsSome(l.members[i].size)
        /\ l.members[i].size # 0
        /\ NextPowerOfTwoOverflows(l.members[i].size)

InferAlignment(size, maxAlign) ==
    IF size = 0 THEN 1
    ELSE Max(Min(NextPowerOfTwo(size), maxAlign), 1)

\* AlignUp rounding down instead of up.
AlignDown(value, alignment) ==
    IF alignment <= 1 THEN value
    ELSE (value \div alignment) * alignment

\* align_up: checked_add fails when value + alignment - 1 exceeds u64::MAX.
AlignUp(value, alignment) ==
    IF alignment <= 1 THEN value
    ELSE IF value + (alignment - 1) > U64_MAX THEN U64_MAX
    ELSE ((value + (alignment - 1)) \div alignment) * alignment

\* One iteration of the loop of find_bitfield_groups over member idx.
BitfieldGroupStep(acc, idx, member) ==
    IF IsSome(member.bit_size)
    THEN LET same_storage ==
                 /\ IsSome(acc.current_offset)
                 /\ IsSome(member.offset)
                 /\ acc.current_offset = member.offset
         IN IF same_storage /\ acc.current_group # <<>>
            THEN [acc EXCEPT !.current_group = Append(acc.current_group, idx)]
            ELSE [groups |-> IF acc.current_group # <<>>
                             THEN Append(acc.groups, acc.current_group)
                             ELSE acc.groups,
                  current_group |-> <<idx>>,
                  current_offset |-> member.offset]
    ELSE IF acc.current_group # <<>>
    THEN [groups |-> Append(acc.groups, acc.current_group),
          current_group |-> <<>>,
          current_offset |-> None]
    ELSE acc

RECURSIVE BitfieldGroupLoop(_, _, _)
BitfieldGroupLoop(acc, members, idx) ==
    IF idx > Len(members) THEN acc
    ELSE BitfieldGroupLoop(BitfieldGroupStep(acc, idx, members[idx]), members, idx + 1)

FindBitfieldGroups(members) ==
    LET acc == BitfieldGroupLoop(
                   [groups |-> <<>>, current_group |-> <<>>, current_offset |-> None],
                   members, 1)
    IN IF acc.current_group # <<>> THEN Append(acc.groups, acc.current_group)
       ELSE acc.groups

\* " (zero-size)" and " (bitfield, missing info)" as character codes.
ZeroSizeSuffix == <<32, 40, 122, 101, 114, 111, 45, 115, 105, 122, 101, 41>>

MissingInfoSuffix ==
    <<32, 40, 98, 105, 116, 102, 105, 101, 108, 100, 44, 32,
      109, 105, 115, 115, 105, 110, 103, 32, 105, 110, 102, 111, 41>>

\* str::starts_with
StartsWith(s, prefix) ==
    Len(prefix) <= Len(s) /\ SubSeq(s, 1, Len(prefix)) = prefix

\* The first loop: a member is placed when its size and offset are known and
\* its size is not zero.
IsPlaceable(m) == IsSome(m.size) /\ IsSome(m.offset) /\ m.size # 0

OptimizedMember(m, maxAlign) ==
    [name |-> m.name, type_name |-> m.type_name, offset |-> m.offset,
     size |-> m.size, alignment |-> InferAlignment(m.size, maxAlign),
     bit_offset |-> m.bit_offset, bit_size |-> m.bit_size]

OriginalMembers(members, maxAlign) ==
    LET kept == SelectSeq(members, IsPlaceable)
    IN [i \in 1..Len(kept) |-> OptimizedMember(kept[i], maxAlign)]

SkippedInFirstLoop(members) ==
    LET skipped == SelectSeq(members, LAMBDA m : ~IsPlaceable(m))
    IN [i \in 1..Len(skipped) |->
            IF IsSome(skipped[i].size) /\ IsSome(skipped[i].offset)
            THEN skipped[i].name \o ZeroSizeSuffix
            ELSE skipped[i].name]

\* original_members.iter().find(|m| m.name == name): a one-element sequence
\* holding the first match, or the empty sequence.
FindByName(original_members, name) ==
    LET hits == {i \in 1..Len(original_members) : original_members[i].name = name}
    IN IF hits = {} THEN <<>>
       ELSE <<original_members[CHOOSE i \in hits : \A j \in hits : i <= j]>>

RECURSIVE MaxOfSeq(_)
MaxOfSeq(s) == IF s = <<>> THEN 0 ELSE Max(Head(s), MaxOfSeq(Tail(s)))

\* The indices of a bitfield group whose member is found in original_members.
GroupConverted(group, members, original_members) ==
    SelectSeq(group, LAMBDA idx : FindByName(original_members, members[idx].name) # <<>>)

\* The unit of one bitfield group (the empty sequence when no member of the
\* group was converted).
GroupUnit(group, members, original_members) ==
    LET converted == GroupConverted(group, members, original_members)
        group_members ==
            [i \in 1..Len(converted) |->
                FindByName(original_members, members[converted[i]].name)[1]]
    IN IF group_members = <<>> THEN <<>>
       ELSE <<[members |-> group_members,
               total_size |-> group_members[1].size,
               alignment |-> MaxOfSeq([i \in 1..Len(group_members) |->
                                          group_members[i].alignment])]>>

BitfieldUnits(groups, members, original_members) ==
    FlattenSeq([g \in 1..Len(groups) |->
                   GroupUnit(groups[g], members, original_members)])

\* processed_indices, which is also converted_bitfield_indices.
ProcessedIndices(groups, members, original_members) ==
    UNION {{GroupConverted(groups[g], members, original_members)[i] :
               i \in 1..Len(GroupConverted(groups[g], members, original_members))} :
           g \in {h \in 1..Len(groups) :
                     GroupConverted(groups[h], members, original_members) # <<>>}}

BitfieldIndices(groups) ==
    UNION {{groups[g][i] : i \in 1..Len(groups[g])} : g \in 1..Len(groups)}

\* MissingBitfieldNames with the starts_with test left out.
MissingBitfieldNamesExactOnly(order, converted, members, skipped_members) ==
    LET missing ==
            SelectSeq(order, LAMBDA idx :
                /\ idx \notin converted
                /\ ~\E k \in 1..Len(skipped_members) :
                        skipped_members[k] = members[idx].name)
    IN [i \in 1..Len(missing) |-> members[missing[i]].name \o MissingInfoSuffix]

\* missing_bitfield_names, the set bitfield_indices iterated in `order`.
MissingBitfieldNames(order, converted, members, skipped_members) ==
    LET missing ==
            SelectSeq(order, LAMBDA idx :
                /\ idx \notin converted
                /\ ~\E k \in 1..Len(skipped_members) :
                        skipped_members[k] = members[idx].name
                /\ ~\E k \in 1..Len(skipped_members) :
                        StartsWith(skipped_members[k], members[idx].name))
    IN [i \in 1..Len(missing) |-> members[missing[i]].name \o MissingInfoSuffix]

\* The single-member units of the members outside every bitfield group.
StandaloneUnits(members, original_members, processed, bitfield_indices) ==
    FlattenSeq([idx \in 1..Len(members) |->
        IF idx \in processed \/ idx \in bitfield_indices THEN <<>>
        ELSE LET found == FindByName(original_members, members[idx].name)
             IN IF found = <<>> THEN <<>>
                ELSE <<[members |-> found,
                        total_size |-> found[1].size,
                        alignment |-> found[1].alignment]>>])

\* The units before sorting: bitfield groups first, then standalone members.
BuildUnits(members, maxAlign) ==
    LET original_members == OriginalMembers(members, maxAlign)
        groups == FindBitfieldGroups(members)
    IN BitfieldUnits(groups, members, original_members)
       \o StandaloneUnits(members, original_members,
                          ProcessedIndices(groups, members, original_members),
                          BitfieldIndices(groups))

\* Largest alignment first, then largest size.
UnitLess(a, b) ==
    \/ a.alignment > b.alignment
    \/ (a.alignment = b.alignment /\ a.total_size > b.total_size)

\* SortUnits with the sort left out.
UnsortedUnits(units) == units

SortUnits(units) ==
    StableSort(units, [i, j \in 1..Len(units) |-> UnitLess(units[i], units[j])])

\* PlaceUnit without the clearing of bit_offset.
PlaceUnitKeepsBitOffset(acc, unit) ==
    LET aligned_offset == AlignUp(acc.current_offset, unit.alignment)
    IN [optimized_members |->
            acc.optimized_members \o
            [i \in 1..Len(unit.members) |->
                [unit.members[i] EXCEPT !.offset = aligned_offset]],
        current_offset |-> SaturatingAdd(aligned_offset, unit.total_size)]

\* One iteration of the placement loop.
PlaceUnit(acc, unit) ==
    LET aligned_offset == AlignUp(acc.current_offset, unit.alignment)
    IN [optimized_members |->
            acc.optimized_members \o
            [i \in 1..Len(unit.members) |->
                [unit.members[i] EXCEPT
                    !.offset = aligned_offset,
                    !.bit_offset = IF IsSome(unit.members[i].bit_size)
                                   THEN None ELSE unit.members[i].bit_offset]],
        current_offset |-> SaturatingAdd(aligned_offset, unit.total_size)]

RECURSIVE PlaceUnits(_, _, _)
PlaceUnits(acc, units, i) ==
    IF i > Len(units) THEN acc
    ELSE PlaceUnits(PlaceUnit(acc, units[i]), units, i + 1)

PlaceAll(units) == PlaceUnits([optimized_members |-> <<>>, current_offset |-> 0], units, 1)

StructAlignment(l, maxAlign) ==
    LET sized == SelectSeq(l.members, LAMBDA m : IsSome(m.size))
        inferred_alignment ==
            IF sized = <<>> THEN 1
            ELSE MaxOfSeq([i \in 1..Len(sized) |-> InferAlignment(sized[i].size, maxAlign)])
    IN Min(IF IsSome(l.alignment) THEN l.alignment ELSE inferred_alignment, maxAlign)

\* Savings with the operands exchanged.
SavingsReversed(original_size, optimized_size) ==
    SaturatingSub(optimized_size, original_size)

Savings(original_size, optimized_size) == SaturatingSub(original_size, optimized_size)

\* optimize_layout when the set bitfield_indices is iterated in `order`.
OptimizeLayout(l, max_align_arg, order) ==
    LET maxAlign == Max(max_align_arg, 1)
        struct_alignment == StructAlignment(l, maxAlign)
        groups == FindBitfieldGroups(l.members)
        original_members == OriginalMembers(l.members, maxAlign)
        skipped == SkippedInFirstLoop(l.members)
        converted == ProcessedIndices(groups, l.members, original_members)
        placed == PlaceAll(SortUnits(BuildUnits(l.members, maxAlign)))
        optimized_size == AlignUp(placed.current_offset, struct_alignment)
        savings_bytes == Savings(l.size, optimized_size)
    IN [name |-> l.name,
        original_size |-> l.size,
        optimized_size |-> optimized_size,
        savings_bytes |-> savings_bytes,
        savings_percent |->
            IF l.size > 0 THEN <<savings_bytes * 100, l.size>> ELSE <<0, 1>>,
        struct_alignment |-> struct_alignment,
        original_members |-> original_members,
        optimized_members |-> placed.optimized_members,
        skipped_members |->
            skipped \o MissingBitfieldNames(order, converted, l.members, skipped),
        has_bitfields |-> groups # <<>>]

(***************************************************************************)
(* diff.rs: diff_layouts                                                   *)
(***************************************************************************)
\* const LOCATION_MISMATCH_PENALTY: i64 = i64::MIN / 4
LOCATION_MISMATCH_PENALTY == -((-I64_MIN) \div 4)

\* u64::abs_diff
AbsDiff(a, b) == IF a >= b THEN a - b ELSE b - a

\* i64::saturating_sub
SaturatingSubI64(a, b) == Max(Min(a - b, I64_MAX), I64_MIN)

\* (x as i128).clamp(i64::MIN as i128, i64::MAX as i128) as i64
ClampI64(x) == Max(Min(x, I64_MAX), I64_MIN)

RECURSIVE SumOver(_, _)
SumOver(S, f) ==
    IF S = {} THEN 0
    ELSE LET x == CHOOSE y \in S : TRUE IN f[x] + SumOver(S \ {x}, f)

\* location_key of a struct: NoLocation or the pair <<file, line>>.
LocationKey(s) == s.source_location

\* Option<(&str, u64)>::cmp as a strict order: None first, then file, line.
LocationLess(a, b) ==
    IF a = NoLocation THEN b # NoLocation
    ELSE /\ b # NoLocation
         /\ \/ StrLess(a[1], b[1])
            \/ (a[1] = b[1] /\ a[2] < b[2])

\* The keys of the HashMap collected from (m.name, m), and the value under a
\* key: a later member of the same name replaces an earlier one.
MemberNames(members) == {members[i].name : i \in 1..Len(members)}

MemberByName(members, name) ==
    members[CHOOSE i \in 1..Len(members) :
                /\ members[i].name = name
                /\ \A j \in 1..Len(members) : members[j].name = name => j <= i]

\* MemberSimilarityScore without the penalty for mismatched locations.
MemberSimilarityScoreNoPenalty(old, new) ==
    LET size_delta == Min(AbsDiff(old.size, new.size), I64_MAX)
        pad_delta == Min(AbsDiff(old.metrics.padding_bytes,
                                 new.metrics.padding_bytes), I64_MAX)
        base == SaturatingSubI64(SaturatingSubI64(0, size_delta), pad_delta \div 2)
        common == MemberNames(old.members) \cap MemberNames(new.members)
        bonus == [name \in common |->
                     LET om == MemberByName(old.members, name)
                         nm == MemberByName(new.members, name)
                     IN (IF om.type_name = nm.type_name THEN 5 ELSE 0)
                        + (IF om.size = nm.size THEN 2 ELSE 0)
                        + (IF om.offset = nm.offset THEN 1 ELSE 0)]
        count_delta == AbsDiff(Len(old.members), Len(new.members))
    IN base + SumOver(common, bonus) + Cardinality(common) * 10 - count_delta

MemberSimilarityScore(old, new) ==
    IF /\ LocationKey(old) # NoLocation /\ LocationKey(new) # NoLocation
       /\ LocationKey(old) # LocationKey(new)
    THEN LOCATION_MISMATCH_PENALTY
    ELSE
      LET size_delta == Min(AbsDiff(old.size, new.size), I64_MAX)
          pad_delta == Min(AbsDiff(old.metrics.padding_bytes,
                                   new.metrics.padding_bytes), I64_MAX)
          base == SaturatingSubI64(SaturatingSubI64(0, size_delta), pad_delta \div 2)
          common == MemberNames(old.members) \cap MemberNames(new.members)
          bonus == [name \in common |->
                       LET om == MemberByName(old.members, name)
                           nm == MemberByName(new.members, name)
                       IN (IF om.type_name = nm.type_name THEN 5 ELSE 0)
                          + (IF om.size = nm.size THEN 2 ELSE 0)
                          + (IF om.offset = nm.offset THEN 1 ELSE 0)]
          count_delta == AbsDiff(Len(old.members), Len(new.members))
      IN base + SumOver(common, bonus) + Cardinality(common) * 10 - count_delta

\* Step 1 of match_structs for old struct i: pair it with the first unused
\* new struct that has the same known location.
MatchByLocationStep(acc, i, old_group, new_group) ==
    LET loc == LocationKey(old_group[i])
        free == {j \in 1..Len(new_group) :
                    LocationKey(new_group[j]) = loc /\ j \notin acc.new_used}
    IN IF loc = NoLocation \/ free = {} THEN acc
       ELSE LET j == CHOOSE c \in free : \A d \in free : c <= d
            IN [old_used |-> acc.old_used \cup {i},
                new_used |-> acc.new_used \cup {j},
                pairs |-> Append(acc.pairs, <<i, j>>)]

RECURSIVE MatchByLocation(_, _, _, _)
MatchByLocation(acc, i, old_group, new_group) ==
    IF i > Len(old_group) THEN acc
    ELSE MatchByLocation(MatchByLocationStep(acc, i, old_group, new_group),
                         i + 1, old_group, new_group)

\* The indices 1..n outside `used`, ascending.
Remaining(n, used) == SelectSeq([i \in 1..n |-> i], LAMBDA i : i \notin used)

\* Highest score first, then lowest old index, then lowest new index.
ScoredLess(a, b) ==
    \/ a.score > b.score
    \/ a.score = b.score /\ a.i < b.i
    \/ a.score = b.score /\ a.i = b.i /\ a.j < b.j

\* ScoredStep without the test that both structs are still unused.
ScoredStepReusing(acc, cand) ==
    IF acc.stopped THEN acc
    ELSE IF cand.score <= 0 THEN [acc EXCEPT !.stopped = TRUE]
    ELSE [acc EXCEPT !.old_used = acc.old_used \cup {cand.i},
                     !.new_used = acc.new_used \cup {cand.j},
                     !.pairs = Append(acc.pairs, <<cand.i, cand.j>>)]

\* One iteration of the greedy loop over the sorted candidates: stop at the
\* first score that is not positive, skip a candidate whose struct is used.
ScoredStep(acc, cand) ==
    IF acc.stopped THEN acc
    ELSE IF cand.score <= 0 THEN [acc EXCEPT !.stopped = TRUE]
    ELSE IF cand.i \in acc.old_used \/ cand.j \in acc.new_used THEN acc
    ELSE [acc EXCEPT !.old_used = acc.old_used \cup {cand.i},
                     !.new_used = acc.new_used \cup {cand.j},
                     !.pairs = Append(acc.pairs, <<cand.i, cand.j>>)]

RECURSIVE ScoredLoop(_, _, _)
ScoredLoop(acc, scored, k) ==
    IF k > Len(scored) THEN acc
    ELSE ScoredLoop(ScoredStep(acc, scored[k]), scored, k + 1)

\* The greedy matching over the scored candidates: sort them, then take
\* each candidate whose two structs are still unused.
GreedyMatch(acc, scored) ==
    LET sorted == StableSort(scored,
                      [a, b \in 1..Len(scored) |-> ScoredLess(scored[a], scored[b])])
        done == ScoredLoop([old_used |-> acc.old_used, new_used |-> acc.new_used,
                            pairs |-> acc.pairs, stopped |-> FALSE], sorted, 1)
    IN [old_used |-> done.old_used, new_used |-> done.new_used,
        pairs |-> done.pairs]

\* Step 2 of match_structs: a single struct left on each side is paired
\* directly; otherwise the greedy matching by similarity score.
MatchRemaining(acc, old_group, new_group) ==
    LET remaining_old == Remaining(Len(old_group), acc.old_used)
        remaining_new == Remaining(Len(new_group), acc.new_used)
    IN IF Len(remaining_old) = 1 /\ Len(remaining_new) = 1
       THEN [old_used |-> acc.old_used \cup {remaining_old[1]},
             new_used |-> acc.new_used \cup {remaining_new[1]},
             pairs |-> Append(acc.pairs, <<remaining_old[1], remaining_new[1]>>)]
       ELSE IF remaining_old # <<>> /\ remaining_new # <<>>
       THEN GreedyMatch(acc,
                FlattenSeq([a \in 1..Len(remaining_old) |->
                    [b \in 1..Len(remaining_new) |->
                        [score |-> MemberSimilarityScore(
                                       old_group[remaining_old[a]],
                                       new_group[remaining_new[b]]),
                         i |-> remaining_old[a], j |-> remaining_new[b]]]]))
       ELSE acc

\* The order of the produced pairs: location of the old struct, its size,
\* the size of the new struct.
PairLess(a, b) ==
    \/ LocationLess(LocationKey(a[1]), LocationKey(b[1]))
    \/ /\ LocationKey(a[1]) = LocationKey(b[1])
       /\ \/ a[1].size < b[1].size
          \/ (a[1].size = b[1].size /\ a[2].size < b[2].size)

\* The MatchResult built from the matched index pairs: the pairs sorted, and
\* the structs of either side that no pair uses.
MatchResult(matched, old_group, new_group) ==
    LET pairs == [k \in 1..Len(matched.pairs) |->
                     <<old_group[matched.pairs[k][1]], new_group[matched.pairs[k][2]]>>]
    IN [pairs |-> StableSort(pairs,
                      [a, b \in 1..Len(pairs) |-> PairLess(pairs[a], pairs[b])]),
        old_unmatched |->
            [k \in 1..Len(Remaining(Len(old_group), matched.old_used)) |->
                old_group[Remaining(Len(old_group), matched.old_used)[k]]],
        new_unmatched |->
            [k \in 1..Len(Remaining(Len(new_group), matched.new_used)) |->
                new_group[Remaining(Len(new_group), matched.new_used)[k]]]]

MatchStructs(old_group, new_group) ==
    MatchResult(
        MatchRemaining(
            MatchByLocation([old_used |-> {}, new_used |-> {}, pairs |-> <<>>],
                            1, old_group, new_group),
            old_group, new_group),
        old_group, new_group)

KindRank(kind) ==
    CASE kind = "Removed" -> 0
      [] kind = "Added" -> 1
      [] kind = "TypeChanged" -> 2
      [] kind = "SizeChanged" -> 3
      [] kind = "OffsetChanged" -> 4

\* The member changes pushed by the two loops over the maps; `details` is
\* the pair of values the message is formatted from.
MemberChanges(old, new) ==
    LET old_names == MemberNames(old.members)
        new_names == MemberNames(new.members)
        om(name) == MemberByName(old.members, name)
        nm(name) == MemberByName(new.members, name)
    IN {[kind |-> "Removed", name |-> name,
         details |-> <<om(name).offset, om(name).size>>] :
            name \in old_names \ new_names}
       \cup {[kind |-> "Added", name |-> name,
              details |-> <<nm(name).offset, nm(name).size>>] :
                name \in new_names \ old_names}
       \cup {[kind |-> "OffsetChanged", name |-> name,
              details |-> <<om(name).offset, nm(name).offset>>] :
                name \in {x \in old_names \cap new_names : om(x).offset # nm(x).offset}}
       \cup {[kind |-> "SizeChanged", name |-> name,
              details |-> <<om(name).size, nm(name).size>>] :
                name \in {x \in old_names \cap new_names : om(x).size # nm(x).size}}
       \cup {[kind |-> "TypeChanged", name |-> name,
              details |-> <<om(name).type_name, nm(name).type_name>>] :
                name \in {x \in old_names \cap new_names :
                             om(x).type_name # nm(x).type_name}}

\* The sort of member_changes: kind rank, then name (no two entries share
\* both, so the details never decide and the order of the maps is immaterial).
ChangeLess(a, b) ==
    \/ KindRank(a.kind) < KindRank(b.kind)
    \/ (KindRank(a.kind) = KindRank(b.kind) /\ StrLess(a.name, b.name))

SortChanges(changes) ==
    [k \in 1..Cardinality(changes) |->
        CHOOSE c \in changes :
            Cardinality({d \in changes : ChangeLess(d, c)}) = k - 1]

\* DiffStruct with the deltas taken as old minus new.
DiffStructOldMinusNew(old, new) ==
    LET size_delta == ClampI64(old.size - new.size)
        padding_delta == ClampI64(old.metrics.padding_bytes - new.metrics.padding_bytes)
        member_changes == SortChanges(MemberChanges(old, new))
    IN IF size_delta = 0 /\ padding_delta = 0 /\ member_changes = <<>> THEN <<>>
       ELSE <<[name |-> old.name, old_size |-> old.size, new_size |-> new.size,
             size_delta |-> size_delta,
             old_padding |-> old.metrics.padding_bytes,
             new_padding |-> new.metrics.padding_bytes,
             padding_delta |-> padding_delta,
             member_changes |-> member_changes]>>

\* diff_struct: the empty sequence (None) when nothing differs, else the
\* StructChange in a one-element sequence.
DiffStruct(old, new) ==
    LET size_delta == ClampI64(new.size - old.size)
        padding_delta == ClampI64(new.metrics.padding_bytes - old.metrics.padding_bytes)
        member_changes == SortChanges(MemberChanges(old, new))
    IN IF size_delta = 0 /\ padding_delta = 0 /\ member_changes = <<>> THEN <<>>
       ELSE <<[name |-> old.name, old_size |-> old.size, new_size |-> new.size,
             size_delta |-> size_delta,
             old_padding |-> old.metrics.padding_bytes,
             new_padding |-> new.metrics.padding_bytes,
             padding_delta |-> padding_delta,
             member_changes |-> member_changes]>>

StructSummary(s) ==
    [name |-> s.name, size |-> s.size, padding_bytes |-> s.metrics.padding_bytes]

\* The keys of all_names in the order of the BTreeMap.
SortedNames(names) ==
    [k \in 1..Cardinality(names) |->
        CHOOSE n \in names : Cardinality({m \in names : StrLess(m, n)}) = k - 1]

Summaries(group) == [k \in 1..Len(group) |-> StructSummary(group[k])]

\* The loop over the matched pairs and the two loops over the unmatched
\* structs of one name.
DiffMatched(m) ==
    LET results == [k \in 1..Len(m.pairs) |->
                       DiffStruct(m.pairs[k][1], m.pairs[k][2])]
    IN [added |-> Summaries(m.new_unmatched),
        removed |-> Summaries(m.old_unmatched),
        changed |-> FlattenSeq(results),
        unchanged |-> Len(SelectSeq(results, LAMBDA c : c = <<>>))]

\* The body of the loop over all_names for one name.
DiffGroup(name, old, new) ==
    LET old_group == SelectSeq(old, LAMBDA s : s.name = name)
        new_group == SelectSeq(new, LAMBDA s : s.name = name)
    IN IF old_group = <<>>
       THEN [added |-> Summaries(new_group), removed |-> <<>>, changed |-> <<>>,
             unchanged |-> 0]
       ELSE IF new_group = <<>>
       THEN [added |-> <<>>, removed |-> Summaries(old_group), changed |-> <<>>,
             unchanged |-> 0]
       ELSE DiffMatched(MatchStructs(old_group, new_group))

SummaryLess(a, b) ==
    StrLess(a.name, b.name) \/ (a.name = b.name /\ a.size < b.size)

StructChangeLess(a, b) ==
    \/ StrLess(a.name, b.name)
    \/ /\ a.name = b.name
       /\ \/ a.old_size < b.old_size
          \/ (a.old_size = b.old_size /\ a.new_size < b.new_size)

\* The DiffResult collected from the per-name results, after the three
\* final sorts.
CollectGroups(groups) ==
    LET added == FlattenSeq([k \in 1..Len(groups) |-> groups[k].added])
        removed == FlattenSeq([k \in 1..Len(groups) |-> groups[k].removed])
        changed == FlattenSeq([k \in 1..Len(groups) |-> groups[k].changed])
    IN [added |-> StableSort(added,
                      [a, b \in 1..Len(added) |-> SummaryLess(added[a], added[b])]),
        removed |-> StableSort(removed,
                      [a, b \in 1..Len(removed) |-> SummaryLess(removed[a], removed[b])]),
        changed |-> StableSort(changed,
                      [a, b \in 1..Len(changed) |->
                          StructChangeLess(changed[a], changed[b])]),
        unchanged_count |-> SumSeq([k \in 1..Len(groups) |-> groups[k].unchanged])]

\* The loop over all_names, in the order of the BTreeMap.
DiffGroups(names, old, new) ==
    [k \in 1..Len(names) |-> DiffGroup(names[k], old, new)]

DiffLayouts(old, new) ==
    CollectGroups(
        DiffGroups(SortedNames({old[i].name : i \in 1..Len(old)}
                               \cup {new[i].name : i \in 1..Len(new)}),
                   old, new))

(***************************************************************************)
(* Generated inputs.                                                       *)
(***************************************************************************)
OptionSet(S) == {None} \cup S

NoAnalysis == [atomic_members |-> <<>>, warnings |-> <<>>, spanning_warnings |-> <<>>]

NoOptimized == None

\* No diff is being computed.
DiffIdle == old_layouts = <<>> /\ new_layouts = <<>> /\ diff = None

\* No debug information is being read.
DwarfIdle == dwarf_unit = None /\ calls = <<>> /\ resolved = None /\ structs = <<>>

(***************************************************************************)
(* Specification SpecPad: analyze_layout on every small layout.            *)
(***************************************************************************)
PadOffsets == OptionSet(0..MaxOffset)

PadSizes == OptionSet(0..MaxSize)

\* The declared sizes: none, one that ends inside the members, the largest.
PadStructSizes == {0, 2, MaxStructSize}

PadCacheLineSizes == {4}

\* Whether a sequence of offsets is in the order extract_members leaves.
OffsetsSorted(offsets) ==
    \A i \in 1..(Len(offsets) - 1) :
        (IF IsSome(offsets[i]) THEN offsets[i] ELSE U64_MAX)
            <= (IF IsSome(offsets[i + 1]) THEN offsets[i + 1] ELSE U64_MAX)

\* struct { char a; int b; char c; } of size 12: a at 0, b at 4, c at 8.
PaddedLayout ==
    StructLayout("TestStruct", 12, None,
        <<MemberLayout(<<97>>, "char", 0, 1, None, None),
          MemberLayout(<<98>>, "int", 4, 4, None, None),
          MemberLayout(<<99>>, "char", 8, 1, None, None)>>)

InitPad ==
    /\ pc = "start"
    /\ \/ \E n \in 0..MaxMembers : \E offsets \in [1..n -> PadOffsets] :
             /\ OffsetsSorted(offsets)
             /\ \E sizes \in [1..n -> PadSizes] : \E sz \in PadStructSizes :
                   layout = StructLayout("TestStruct", sz, None,
                                [i \in 1..n |->
                                    MemberLayout(<<i>>, "u64", offsets[i], sizes[i],
                                                 None, None)])
       \/ layout = PaddedLayout
    /\ cache_line_size \in PadCacheLineSizes
    /\ max_align = 8
    /\ fs_a = NoAnalysis
    /\ fs_b = NoAnalysis
    /\ opt = NoOptimized
    /\ opt2 = NoOptimized
    /\ DiffIdle
    /\ DwarfIdle

\* AnalyzeLayout carrying the attached false-sharing result over.
AnalyzeLayoutKeepingFalseSharing ==
    /\ pc \in {"start", "analyzed", "attached"}
    /\ IF cache_line_size > 0
       THEN /\ layout' = [layout EXCEPT !.metrics =
                              [ComputeMetrics(layout, cache_line_size) EXCEPT
                                  !.false_sharing = layout.metrics.false_sharing]]
            /\ pc' = "analyzed"
       ELSE /\ pc' = "assert_failed"
            /\ UNCHANGED layout
    /\ UNCHANGED <<cache_line_size, max_align, fs_a, fs_b, opt, opt2>>
    /\ UNCHANGED <<diffVars, dwarfVars>>

\* analyze_layout(&mut layout, cache_line_size); the assertion on
\* cache_line_size fails for 0.
AnalyzeLayout ==
    /\ pc \in {"start", "analyzed", "attached"}
    /\ IF cache_line_size > 0
       THEN /\ layout' = [layout EXCEPT !.metrics = ComputeMetrics(layout, cache_line_size)]
            /\ pc' = "analyzed"
       ELSE /\ pc' = "assert_failed"
            /\ UNCHANGED layout
    /\ UNCHANGED <<cache_line_size, max_align, fs_a, fs_b, opt, opt2>>
    /\ UNCHANGED <<diffVars, dwarfVars>>

NextPad == AnalyzeLayout

SpecPad == InitPad /\ [][NextPad]_vars

(***************************************************************************)
(* Claims about analyze_layout.                                            *)
(***************************************************************************)
HoleSizes(m) == [i \in 1..Len(m.padding_holes) |-> m.padding_holes[i].size]

\* The byte positions covered by at least one resolved member.
CoveredBytes(members) ==
    UNION {members[i].offset .. (members[i].offset + members[i].size - 1) :
              i \in {j \in 1..Len(members) : IsResolved(members[j])}}

\* C1: whenever partial is false, useful_size plus the sizes of all reported
\* padding holes equals the declared size of the struct.
C1_UsefulPlusHolesIsSize ==
    (pc = "analyzed" /\ ~layout.metrics.partial)
        => layout.metrics.useful_size + SumSeq(HoleSizes(layout.metrics))
               = layout.size

\* C2: partial is true exactly when some member lacks its offset or its size;
\* a partial layout reports no padding hole and no padding bytes, and its
\* useful_size counts only bytes of the resolved members.
C2_PartialSuppressesHoles ==
    pc = "analyzed" =>
        /\ layout.metrics.partial
              = (\E i \in 1..Len(layout.members) :
                    layout.members[i].offset = None \/ layout.members[i].size = None)
        /\ layout.metrics.partial =>
              /\ layout.metrics.padding_holes = <<>>
              /\ layout.metrics.padding_bytes = 0
              /\ layout.metrics.useful_size
                    = Cardinality(CoveredBytes(layout.members))

\* A partial layout whose resolved members leave a gap and a tail uncovered.
C2_Witness ==
    /\ pc = "analyzed"
    /\ layout.metrics.partial
    /\ layout.metrics.useful_size > 0
    /\ \E b \in 0..(layout.size - 1) :
          /\ b \notin CoveredBytes(layout.members)
          /\ \E c \in CoveredBytes(layout.members) : c > b
    /\ \E b \in CoveredBytes(layout.members) : b + 1 < layout.size

\* C3: useful_size is the number of distinct byte positions covered by the
\* spans of the resolved members (shared bytes once, adjacent spans summed).
C3_UsefulIsCoveredBytes ==
    pc = "analyzed" =>
        layout.metrics.useful_size = Cardinality(CoveredBytes(layout.members))

\* Three resolved members: one lying strictly inside another, the third
\* adjacent to the end of the enclosing one.
C3_Witness ==
    /\ pc = "analyzed"
    /\ \E i, j, k \in 1..Len(layout.members) :
          LET a == layout.members[i]
              b == layout.members[j]
              c == layout.members[k]
          IN /\ IsResolved(a) /\ IsResolved(b) /\ IsResolved(c)
             /\ b.size > 0 /\ c.size > 0
             /\ a.offset < b.offset /\ b.offset + b.size < a.offset + a.size
             /\ c.offset = a.offset + a.size
    /\ layout.metrics.useful_size > 0

\* The members of a layout that analyze_layout turns into spans.
SpanMembers(l) ==
    {i \in 1..Len(l.members) : IsResolved(l.members[i]) /\ l.members[i].size # 0}

\* Where a hole that starts at `offset` has to end: at the first span that
\* starts at or after it, or at the declared size when there is none.
NextSpanStart(l, offset) ==
    LET later == {l.members[i].offset : i \in {j \in SpanMembers(l) :
                                                  l.members[j].offset >= offset}}
    IN IF later = {} THEN l.size
       ELSE CHOOSE s \in later : \A u \in later : s <= u

\* What C20 says of one reported hole.
HoleIsGap(l, hole) ==
    /\ hole.size > 0
    /\ \E i \in SpanMembers(l) :
          /\ l.members[i].name = hole.after_member
          /\ l.members[i].offset + l.members[i].size = hole.offset
    /\ hole.offset + hole.size = NextSpanStart(l, hole.offset)
    /\ \A i \in SpanMembers(l) :
          \/ l.members[i].offset + l.members[i].size <= hole.offset
          \/ hole.offset + hole.size <= l.members[i].offset

\* C20: when partial is false, every reported padding hole has size > 0,
\* starts at the end offset of the member named in its after_member, ends at
\* the start of the next member span or, for the trailing hole, at the
\* declared size, and overlaps no member span; the holes are in ascending
\* offset order.  For char at 0, int at 4, char at 8 and size 12 the holes
\* are (1, 3) and (9, 3), padding_bytes is 6 and the percentage 50.
C20_HolesAreGaps ==
    (pc = "analyzed" /\ ~layout.metrics.partial) =>
        LET holes == layout.metrics.padding_holes
        IN /\ \A k \in 1..Len(holes) : HoleIsGap(layout, holes[k])
           /\ \A k \in 1..(Len(holes) - 1) : holes[k].offset < holes[k + 1].offset
           /\ layout.members = PaddedLayout.members /\ layout.size = PaddedLayout.size =>
                 /\ holes = <<[offset |-> 1, size |-> 3, after_member |-> <<97>>],
                              [offset |-> 9, size |-> 3, after_member |-> <<99>>]>>
                 /\ layout.metrics.padding_bytes = 6
                 /\ layout.metrics.padding_percentage[1]
                        = 50 * layout.metrics.padding_percentage[2]

\* The padded struct has been analyzed, and so has a generated layout with
\* an inner and a trailing hole.
C20_Witness ==
    /\ pc = "analyzed"
    /\ ~layout.metrics.partial
    /\ Len(layout.metrics.padding_holes) = 2
    /\ layout.metrics.padding_holes[2].offset + layout.metrics.padding_holes[2].size
           = layout.size
    /\ layout.metrics.padding_bytes = 6

(***************************************************************************)
(* Specification SpecFS: analyze_false_sharing, run twice on one layout.   *)
(***************************************************************************)
FsNames == {<<1>>, <<2>>}

FsTypeNames == {"u64", "std::sync::atomic::AtomicU64"}

FsMembers ==
    {MemberLayout(n, t, o, s, None, None) :
        n \in FsNames, t \in FsTypeNames,
        o \in OptionSet(0..MaxFsOffset), s \in OptionSet(0..MaxFsSize)}

FsCacheLineSizes == {2}

InitFS ==
    /\ pc = "start"
    /\ \E n \in 0..MaxMembers : \E ms \in [1..n -> FsMembers] :
          /\ SortedByOffset(ms)
          /\ layout = StructLayout("TestStruct", MaxStructSize, None, ms)
    /\ cache_line_size \in FsCacheLineSizes
    /\ max_align = 8
    /\ fs_a = NoAnalysis
    /\ fs_b = NoAnalysis
    /\ opt = NoOptimized
    /\ opt2 = NoOptimized
    /\ DiffIdle
    /\ DwarfIdle

\* let fs = analyze_false_sharing(&layout, cache_line_size).  A division by
\* zero aborts the call; an unchecked operation that overflows aborts it in a
\* build with overflow checks and wraps around in a build without.
AnalyzeFalseSharing ==
    /\ pc = "start"
    /\ IF FalseSharingDividesByZero(layout, cache_line_size)
       THEN /\ pc' = "aborted"
            /\ UNCHANGED fs_a
       ELSE \E order \in IterationOrders(
                        CacheLineKeys(AtomicMembers(layout.members, cache_line_size))) :
               IF FalseSharingOverflows(layout, cache_line_size, order)
               THEN \/ /\ pc' = "aborted"
                       /\ UNCHANGED fs_a
                    \/ /\ pc' = "wrapped"
                       /\ fs_a' = FalseSharingAnalysis(layout, cache_line_size, order)
               ELSE /\ pc' = "analyzed"
                    /\ fs_a' = FalseSharingAnalysis(layout, cache_line_size, order)
    /\ UNCHANGED <<layout, cache_line_size, max_align, fs_b, opt, opt2>>
    /\ UNCHANGED <<diffVars, dwarfVars>>

\* A second run of analyze_false_sharing on the same layout.
AnalyzeFalseSharingAgain ==
    /\ pc = "analyzed"
    /\ IF FalseSharingDividesByZero(layout, cache_line_size)
       THEN /\ pc' = "aborted"
            /\ UNCHANGED fs_b
       ELSE \E order \in IterationOrders(
                        CacheLineKeys(AtomicMembers(layout.members, cache_line_size))) :
               IF FalseSharingOverflows(layout, cache_line_size, order)
               THEN \/ /\ pc' = "aborted"
                       /\ UNCHANGED fs_b
                    \/ /\ pc' = "wrapped"
                       /\ fs_b' = FalseSharingAnalysis(layout, cache_line_size, order)
               ELSE /\ pc' = "done"
                    /\ fs_b' = FalseSharingAnalysis(layout, cache_line_size, order)
    /\ UNCHANGED <<layout, cache_line_size, max_align, fs_a, opt, opt2>>
    /\ UNCHANGED <<diffVars, dwarfVars>>

NextFS == AnalyzeFalseSharing \/ AnalyzeFalseSharingAgain

SpecFS == InitFS /\ [][NextFS]_vars

(***************************************************************************)
(* Claims about analyze_false_sharing.                                     *)
(***************************************************************************)
\* The positions of the qualifying atomic members of the layout.
Qualifying == {i \in 1..Len(layout.members) : QualifiesAsAtomic(layout.members[i])}

LineRange(m) ==
    (m.offset \div cache_line_size) .. ((m.offset + m.size - 1) \div cache_line_size)

\* The pairs of qualifying members, lower offset (or earlier position) first,
\* whose cache-line ranges share a line.
SharingPairs ==
    {p \in Qualifying \X Qualifying :
        /\ p[1] # p[2]
        /\ \/ layout.members[p[1]].offset < layout.members[p[2]].offset
           \/ (layout.members[p[1]].offset = layout.members[p[2]].offset /\ p[1] < p[2])
        /\ LineRange(layout.members[p[1]]) \cap LineRange(layout.members[p[2]]) # {}}

WarningIsFor(w, p) ==
    /\ w.member_a = layout.members[p[1]].name
    /\ w.member_b = layout.members[p[2]].name

\* C4: every pairwise warning names two members whose inclusive cache-line
\* ranges intersect, and its cache_line lies in both ranges.
C4_WarningLineInBothRanges ==
    pc # "start" =>
        \A k \in 1..Len(fs_a.warnings) :
            \E p \in SharingPairs :
                /\ WarningIsFor(fs_a.warnings[k], p)
                /\ fs_a.warnings[k].cache_line \in
                      LineRange(layout.members[p[1]]) \cap LineRange(layout.members[p[2]])

\* A warning for a pair one of whose members spans two lines and whose
\* ranges share only one of them.
C4_Witness ==
    /\ pc # "start"
    /\ \E k \in 1..Len(fs_a.warnings) : \E p \in SharingPairs :
          /\ WarningIsFor(fs_a.warnings[k], p)
          /\ layout.members[p[1]].name # layout.members[p[2]].name
          /\ LineRange(layout.members[p[1]]) # LineRange(layout.members[p[2]])
          /\ Cardinality(LineRange(layout.members[p[1]])) = 2
          /\ fs_a.warnings[k].cache_line # layout.members[p[1]].offset \div cache_line_size

\* C5: exactly one pairwise warning for every unordered pair of distinct
\* qualifying atomic members whose cache-line ranges share a line.
C5_OneWarningPerSharingPair ==
    pc # "start" =>
        /\ Len(fs_a.warnings) = Cardinality(SharingPairs)
        /\ \A p \in SharingPairs :
              \E k \in 1..Len(fs_a.warnings) : WarningIsFor(fs_a.warnings[k], p)

OptNames == {<<1>>, <<2>>}

\* The type name of a generated member follows its size.
TypeNameOfSize(size) ==
    CASE size = None -> "unknown"
      [] size = 0 -> "()"
      [] size = 1 -> "char"
      [] size = 2 -> "short"
      [] size = 4 -> "int"
      [] OTHER -> "u8[]"

\* A generated member; a bitfield of known, non-zero size has bit offset 0.
OptMember(name, offset, size, bit_size) ==
    MemberLayout(name, TypeNameOfSize(size), offset, size,
                 IF IsSome(bit_size) /\ IsSome(size) /\ size # 0 THEN 0 ELSE None,
                 bit_size)

OptMembers ==
    {OptMember(n, o, s, b) :
        n \in OptNames, o \in OptionSet(0..MaxOptOffset),
        s \in OptionSet(0..MaxOptSize), b \in OptionSet({1})}

OptStructSizes == {4}

OptAlignments == OptionSet({4})

InitOpt ==
    /\ pc = "start"
    /\ \E n \in 0..MaxMembers : \E ms \in [1..n -> OptMembers] :
          /\ SortedByOffset(ms)
          /\ \E sz \in OptStructSizes : \E al \in OptAlignments :
                layout = StructLayout("Test", sz, al, ms)
    /\ cache_line_size = 64
    /\ max_align = 8
    /\ fs_a = NoAnalysis
    /\ fs_b = NoAnalysis
    /\ opt = NoOptimized
    /\ opt2 = NoOptimized
    /\ DiffIdle
    /\ DwarfIdle

\* The StructLayout rebuilt from an OptimizedLayout.
Rebuild(o) ==
    StructLayout(o.name, o.optimized_size, o.struct_alignment,
        [i \in 1..Len(o.optimized_members) |->
            MemberLayout(o.optimized_members[i].name,
                         o.optimized_members[i].type_name,
                         o.optimized_members[i].offset,
                         o.optimized_members[i].size,
                         o.optimized_members[i].bit_offset,
                         o.optimized_members[i].bit_size)])

\* let opt = optimize_layout(&layout, max_align).  next_power_of_two of a size
\* above 2^63 aborts the call in a build with overflow checks and returns 0 in
\* a build without.
Optimize ==
    /\ pc = "start"
    /\ \E order \in IterationOrders(BitfieldIndices(FindBitfieldGroups(layout.members))) :
          IF OptimizeOverflows(layout)
          THEN \/ /\ pc' = "aborted"
                  /\ UNCHANGED opt
               \/ /\ pc' = "wrapped"
                  /\ opt' = OptimizeLayout(layout, max_align, order)
          ELSE /\ pc' = "optimized"
               /\ opt' = OptimizeLayout(layout, max_align, order)
    /\ UNCHANGED <<layout, cache_line_size, max_align, fs_a, fs_b, opt2>>
    /\ UNCHANGED <<diffVars, dwarfVars>>

\* let opt2 = optimize_layout(&rebuilt, max_align)
OptimizeAgain ==
    /\ pc = "optimized"
    /\ \E order \in IterationOrders(
                        BitfieldIndices(FindBitfieldGroups(Rebuild(opt).members))) :
          opt2' = OptimizeLayout(Rebuild(opt), max_align, order)
    /\ pc' = "done"
    /\ UNCHANGED <<layout, cache_line_size, max_align, fs_a, fs_b, opt>>
    /\ UNCHANGED <<diffVars, dwarfVars>>

NextOpt == Optimize \/ OptimizeAgain

SpecOpt == InitOpt /\ [][NextOpt]_vars

(***************************************************************************)
(* Claims about optimize_layout.                                           *)
(***************************************************************************)
\* C7 as stated: savings_bytes == 0 implies optimized_size == original_size.
C7_ZeroSavingsSameSize ==
    (pc # "start" /\ opt.savings_bytes = 0)
        => opt.optimized_size = opt.original_size

\* C7 (amended): whenever savings_bytes == 0, optimized_size is not smaller
\* than original_size.
C7_ZeroSavingsNotSmaller ==
    (pc # "start" /\ opt.savings_bytes = 0)
        => opt.optimized_size >= opt.original_size

\* Zero savings with an optimized layout larger than the original.
C7_Witness ==
    /\ pc # "start"
    /\ opt.savings_bytes = 0
    /\ opt.optimized_size > opt.original_size
    /\ Len(opt.optimized_members) > 1

\* C8: optimizing the layout rebuilt from the result yields no savings and
\* the same optimized_size.
C8_Idempotent ==
    pc = "done" =>
        /\ opt2.savings_bytes = 0
        /\ opt2.optimized_size = opt.optimized_size

\* How often the (name, type name, size) of m occurs in the sequence ms.
Occurrences(ms, m) ==
    Cardinality({i \in 1..Len(ms) :
        /\ ms[i].name = m.name
        /\ ms[i].type_name = m.type_name
        /\ ms[i].size = m.size})

\* C10: optimized_members is a rearrangement of exactly the placeable source
\* members, each once with its own name, type name and size.
C10_RearrangesPlaceable ==
    pc # "start" =>
        LET placeable == SelectSeq(layout.members, IsPlaceable)
        IN /\ Len(opt.optimized_members) = Len(placeable)
           /\ \A i \in 1..Len(placeable) :
                 Occurrences(opt.optimized_members, placeable[i])
                     = Occurrences(placeable, placeable[i])

\* The source members optimize_layout does not place.
Unplaceable == SelectSeq(layout.members, LAMBDA m : ~IsPlaceable(m))

\* C11: skipped_members holds exactly one entry for every source member with
\* unknown size, unknown offset or size zero (bitfields included), in member
\* order, and no entry for a name whose members were all placed.
C11_SkippedExactlyUnplaceable ==
    pc # "start" =>
        /\ Len(opt.skipped_members) = Len(Unplaceable)
        /\ \A i \in 1..Len(Unplaceable) :
              i <= Len(opt.skipped_members)
              /\ opt.skipped_members[i] =
                    IF IsSome(Unplaceable[i].size) /\ IsSome(Unplaceable[i].offset)
                    THEN Unplaceable[i].name \o ZeroSizeSuffix
                    ELSE Unplaceable[i].name
        /\ \A i \in 1..Len(layout.members) :
              (\A j \in 1..Len(layout.members) :
                    layout.members[j].name = layout.members[i].name
                        => IsPlaceable(layout.members[j]))
              => \A k \in 1..Len(opt.skipped_members) :
                    ~StartsWith(opt.skipped_members[k], layout.members[i].name)

\* A zero-size bitfield, a bitfield of unknown size and a placed member.
C11_Witness ==
    /\ pc # "start"
    /\ \E i, j, k \in 1..Len(layout.members) :
          /\ IsSome(layout.members[i].bit_size)
          /\ layout.members[i].size = 0 /\ IsSome(layout.members[i].offset)
          /\ IsSome(layout.members[j].bit_size)
          /\ layout.members[j].size = None
          /\ IsPlaceable(layout.members[k])
          /\ layout.members[k].name # layout.members[i].name
          /\ layout.members[k].name # layout.members[j].name
    /\ Len(opt.skipped_members) = 2
    /\ Len(opt.optimized_members) = 1

\* The positions of the placeable source members with the given name.
PlaceableNamed(name) ==
    {i \in 1..Len(layout.members) :
        IsPlaceable(layout.members[i]) /\ layout.members[i].name = name}

\* The first placeable source member with the given name.
FirstPlaceableNamed(name) ==
    layout.members[CHOOSE i \in PlaceableNamed(name) :
                       \A j \in PlaceableNamed(name) : i <= j]

PackedMembers(sizes) ==
    [i \in 1..Len(sizes) |->
        MemberLayout(<<i>>, TypeNameOfSize(sizes[i]),
                     SumSeq(SubSeq(sizes, 1, i - 1)), sizes[i], None, None)]

\* The values of max_align, in the order they are tried.
OrderMaxAligns == <<8, 3>>

InitOptOrder ==
    /\ pc = "start"
    /\ \E k \in 1..Len(OrderMaxAligns) : max_align = OrderMaxAligns[k]
    /\ \E n \in 0..MaxUnits : \E sizes \in [1..n -> 1..MaxUnitSize] :
          layout = StructLayout("Test", SumSeq(sizes), None, PackedMembers(sizes))
    /\ cache_line_size = 64
    /\ fs_a = NoAnalysis
    /\ fs_b = NoAnalysis
    /\ opt = NoOptimized
    /\ opt2 = NoOptimized
    /\ DiffIdle
    /\ DwarfIdle

NextOptOrder == Optimize

SpecOptOrder == InitOptOrder /\ [][NextOptOrder]_vars

\* The units optimize_layout builds for the layout, before sorting.
LayoutUnits == BuildUnits(layout.members, Max(max_align, 1))

\* The total size when the units are placed in the order `order`.
SizeInOrder(units, order, struct_alignment) ==
    AlignUp(PlaceAll([i \in 1..Len(units) |-> units[order[i]]]).current_offset,
            struct_alignment)

NoOrderingSmaller ==
    \A order \in IterationOrders(1..Len(LayoutUnits)) :
        opt.optimized_size >= 0
        /\ SizeInOrder(LayoutUnits, order, opt.struct_alignment) >= opt.optimized_size

IsPowerOfTwo(n) == n >= 1 /\ NextPowerOfTwo(n) = n

\* Every unit's size is a multiple of its alignment, a power of two.
UnitsNaturallyAligned ==
    \A i \in 1..Len(LayoutUnits) :
        /\ IsPowerOfTwo(LayoutUnits[i].alignment)
        /\ LayoutUnits[i].total_size % LayoutUnits[i].alignment = 0

\* C9 as stated: no ordering of the units gives a total size smaller than
\* optimized_size.
C9_MinimalPadding == pc # "start" => NoOrderingSmaller

\* C9 (amended): no ordering of the units gives a smaller total size,
\* provided every unit's size is a multiple of its alignment and the unit
\* alignments are powers of two.
C9_MinimalWhenNaturallyAligned ==
    (pc # "start" /\ UnitsNaturallyAligned) => NoOrderingSmaller

\* Naturally aligned units of two alignments, declared in an order that is
\* larger than the optimized one.
C9_Witness ==
    /\ pc # "start"
    /\ UnitsNaturallyAligned
    /\ Len(LayoutUnits) >= 3
    /\ \E i, j \in 1..Len(LayoutUnits) : LayoutUnits[i].alignment # LayoutUnits[j].alignment
    /\ SizeInOrder(LayoutUnits, [i \in 1..Len(LayoutUnits) |-> i], opt.struct_alignment)
           > opt.optimized_size

(***************************************************************************)
(* Specification SpecBits: optimize_layout on layouts of bitfields and     *)
(* plain members with pairwise different names.                            *)
(***************************************************************************)
\* The byte sizes of the generated members: unknown, zero, char, int.
BitsSizes == {None, 0, 1, 4}

InitBits ==
    /\ pc = "start"
    /\ \E n \in 0..MaxMembers : \E offsets \in [1..n -> OptionSet(0..MaxOptOffset)] :
          /\ OffsetsSorted(offsets)
          /\ \E sizes \in [1..n -> BitsSizes] : \E bits \in [1..n -> OptionSet({1})] :
                layout = StructLayout("Test", 8, None,
                             [i \in 1..n |->
                                 OptMember(<<i>>, offsets[i], sizes[i], bits[i])])
    /\ cache_line_size = 64
    /\ max_align = 8
    /\ fs_a = NoAnalysis
    /\ fs_b = NoAnalysis
    /\ opt = NoOptimized
    /\ opt2 = NoOptimized
    /\ DiffIdle
    /\ DwarfIdle

NextBits == Optimize

SpecBits == InitBits /\ [][NextBits]_vars

\* Whether source member i is a placed bitfield.
IsPlacedBitfield(i) ==
    IsPlaceable(layout.members[i]) /\ IsSome(layout.members[i].bit_size)

\* C12: all placed bitfield members that share a known byte offset in the
\* source layout get one common offset in the optimized layout and appear
\* consecutively in optimized_members, in their source order.
C12_StorageUnitMovedWhole ==
    pc # "start" =>
        \A i, j \in 1..Len(layout.members) :
            (/\ i < j
             /\ IsPlacedBitfield(i) /\ IsPlacedBitfield(j)
             /\ layout.members[i].offset = layout.members[j].offset)
            => \E ki, kj \in 1..Len(opt.optimized_members) :
                  /\ ki < kj
                  /\ opt.optimized_members[ki].name = layout.members[i].name
                  /\ opt.optimized_members[kj].name = layout.members[j].name
                  /\ opt.optimized_members[ki].offset = opt.optimized_members[kj].offset
                  /\ \A k \in (ki + 1)..(kj - 1) :
                        \E m \in 1..Len(layout.members) :
                            /\ IsPlacedBitfield(m)
                            /\ layout.members[m].offset = layout.members[i].offset
                            /\ layout.members[m].name = opt.optimized_members[k].name

(***************************************************************************)
(* Specification SpecDiff: diff_layouts on two analyzed collections of     *)
(* structs, as run_diff calls it.                                          *)
(***************************************************************************)
\* The layout after analyze_layout.
Analyzed(l) == [l EXCEPT !.metrics = ComputeMetrics(l, 64)]

\* A struct of the given name, size, declaration location and members.
DiffStructOf(name, size, location, members) ==
    Analyzed([StructLayout(name, size, None, members)
                 EXCEPT !.source_location = location])

DiffLocations == {NoLocation, <<<<102>>, 1>>, <<<<102>>, 2>>}

DiffMemberLists == {<<>>, <<MemberLayout(<<97>>, "u32", 0, 4, None, None)>>}

\* The structs of a collection: every variant of the name <<83>> and one
\* struct of another name.
DiffStructs ==
    {DiffStructOf(<<83>>, sz, loc, ms) :
        sz \in {4, 8}, loc \in DiffLocations, ms \in DiffMemberLists}
    \cup {DiffStructOf(<<84>>, 4, NoLocation, <<>>)}

\* find_structs returns the structs without exact duplicates, ordered by
\* name, then size, then location.
FingerprintOrdered(a, b) ==
    \/ StrLess(a.name, b.name)
    \/ /\ a.name = b.name
       /\ \/ a.size < b.size
          \/ /\ a.size = b.size
             /\ \/ LocationLess(LocationKey(a), LocationKey(b))
                \/ (LocationKey(a) = LocationKey(b) /\ Len(a.members) < Len(b.members))

DiffCollections ==
    UNION {{c \in [1..n -> DiffStructs] :
               \A i \in 1..(n - 1) : FingerprintOrdered(c[i], c[i + 1])} :
           n \in 0..MaxStructs}

InitDiff ==
    /\ pc = "start"
    /\ layout = StructLayout("Test", 0, None, <<>>)
    /\ cache_line_size = 64
    /\ max_align = 8
    /\ fs_a = NoAnalysis
    /\ fs_b = NoAnalysis
    /\ opt = NoOptimized
    /\ opt2 = NoOptimized
    /\ old_layouts \in DiffCollections
    /\ new_layouts \in DiffCollections
    /\ diff = None
    /\ DwarfIdle

\* let diff = diff_layouts(&old_layouts, &new_layouts)
Diff ==
    /\ pc = "start"
    /\ diff' = DiffLayouts(old_layouts, new_layouts)
    /\ pc' = "diffed"
    /\ UNCHANGED <<layout, cache_line_size, max_align, fs_a, fs_b, opt, opt2>>
    /\ UNCHANGED <<old_layouts, new_layouts, dwarfVars>>

NextDiff == Diff

SpecDiff == InitDiff /\ [][NextDiff]_vars

(***************************************************************************)
(* Claims about diff_layouts.                                              *)
(***************************************************************************)
\* C14: diffing a collection against itself yields empty added, removed and
\* changed lists and unchanged_count equal to the number of layouts.
C14_SelfDiffIsEmpty ==
    (pc = "diffed" /\ new_layouts = old_layouts) =>
        /\ diff.added = <<>>
        /\ diff.removed = <<>>
        /\ diff.changed = <<>>
        /\ diff.unchanged_count = Len(old_layouts)

\* The names of the structs of both collections.
DiffNames ==
    {old_layouts[i].name : i \in 1..Len(old_layouts)}
    \cup {new_layouts[i].name : i \in 1..Len(new_layouts)}

OldGroup(name) == SelectSeq(old_layouts, LAMBDA s : s.name = name)

NewGroup(name) == SelectSeq(new_layouts, LAMBDA s : s.name = name)

\* The pairs match_structs forms for a name.
PairsOf(name) ==
    IF OldGroup(name) = <<>> \/ NewGroup(name) = <<>> THEN <<>>
    ELSE MatchStructs(OldGroup(name), NewGroup(name)).pairs

\* Both declaration locations are known and they differ.
CrossLocation(o, n) ==
    /\ LocationKey(o) # NoLocation /\ LocationKey(n) # NoLocation
    /\ LocationKey(o) # LocationKey(n)

\* C15 as stated: no pair joins an old and a new struct whose known
\* locations differ, and an old struct all of whose namesakes in new are
\* declared at another known location is reported as removed.
C15_NeverPairsAcrossLocations ==
    pc = "diffed" =>
        /\ \A name \in DiffNames : \A k \in 1..Len(PairsOf(name)) :
              ~CrossLocation(PairsOf(name)[k][1], PairsOf(name)[k][2])
        /\ \A i \in 1..Len(old_layouts) :
              (\A j \in 1..Len(new_layouts) :
                    new_layouts[j].name = old_layouts[i].name
                        => CrossLocation(old_layouts[i], new_layouts[j]))
              => \E k \in 1..Len(diff.removed) :
                    diff.removed[k] = StructSummary(old_layouts[i])

\* The structs of a group that matching by location leaves unpaired.
LeftByLocation(name) ==
    LET by_loc == MatchByLocation([old_used |-> {}, new_used |-> {}, pairs |-> <<>>],
                                  1, OldGroup(name), NewGroup(name))
    IN [old |-> Remaining(Len(OldGroup(name)), by_loc.old_used),
        new |-> Remaining(Len(NewGroup(name)), by_loc.new_used)]

\* C15 (amended): a pair joins an old and a new struct whose known locations
\* differ only when they are the single old and the single new struct of
\* that name left unpaired by the matching on location, and those two are
\* always paired; with more left on a side no such pair is formed.
C15_CrossLocationOnlyLastPair ==
    pc = "diffed" =>
        \A name \in DiffNames :
            LET left == LeftByLocation(name)
                last == <<OldGroup(name)[left.old[1]], NewGroup(name)[left.new[1]]>>
            IN IF OldGroup(name) = <<>> \/ NewGroup(name) = <<>> THEN TRUE
               ELSE IF Len(left.old) = 1 /\ Len(left.new) = 1
               THEN /\ \E k \in 1..Len(PairsOf(name)) : PairsOf(name)[k] = last
                    /\ \A k \in 1..Len(PairsOf(name)) :
                          CrossLocation(PairsOf(name)[k][1], PairsOf(name)[k][2])
                              => PairsOf(name)[k] = last
               ELSE \A k \in 1..Len(PairsOf(name)) :
                        ~CrossLocation(PairsOf(name)[k][1], PairsOf(name)[k][2])

\* Two old structs and two new structs of one name with the same member,
\* declared at different known locations: none is paired, all four are
\* reported as removed or added.
C15_Witness ==
    /\ pc = "diffed"
    /\ Len(old_layouts) = 2 /\ Len(new_layouts) = 2
    /\ \A i, j \in 1..2 :
          /\ old_layouts[i].name = new_layouts[j].name
          /\ CrossLocation(old_layouts[i], new_layouts[j])
          /\ old_layouts[i].members # <<>>
          /\ new_layouts[j].members # <<>>
    /\ Len(diff.removed) = 2 /\ Len(diff.added) = 2
    /\ diff.changed = <<>> /\ diff.unchanged_count = 0

(***************************************************************************)
(* Specification SpecDiffPair: diff_layouts on one old and one new struct  *)
(* of the same name.                                                       *)
(***************************************************************************)
PairOldMemberLists ==
    {<<>>,
     <<MemberLayout(<<97>>, "u32", 0, 4, None, None)>>,
     <<MemberLayout(<<98>>, "u32", 4, 4, None, None)>>,
     <<MemberLayout(<<97>>, "u32", 0, 4, None, None),
       MemberLayout(<<98>>, "u32", 4, 4, None, None)>>}

PairNewMembers ==
    {MemberLayout(n, t, o, sz, None, None) :
        n \in {<<97>>, <<99>>}, t \in {"u32", "u64"}, o \in {0, 8}, sz \in {4, 8}}

PairNewMemberLists ==
    {<<>>} \cup {<<m>> : m \in PairNewMembers}
    \cup {<<m1, m2>> : m1 \in PairNewMembers,
                       m2 \in {m \in PairNewMembers : m.offset = 8}}

InitDiffPair ==
    /\ pc = "start"
    /\ layout = StructLayout("Test", 0, None, <<>>)
    /\ cache_line_size = 64
    /\ max_align = 8
    /\ fs_a = NoAnalysis
    /\ fs_b = NoAnalysis
    /\ opt = NoOptimized
    /\ opt2 = NoOptimized
    /\ \E ms \in PairOldMemberLists :
          old_layouts = <<DiffStructOf(<<88>>, 8, NoLocation, ms)>>
    /\ \E ms \in PairNewMemberLists : \E sz \in {8, 16} :
          new_layouts = <<DiffStructOf(<<88>>, sz, NoLocation, ms)>>
    /\ diff = None
    /\ DwarfIdle

NextDiffPair == Diff

SpecDiffPair == InitDiffPair /\ [][NextDiffPair]_vars

\* The last member of the given name in a member list.
LastNamed(members, name) ==
    members[CHOOSE i \in 1..Len(members) :
                /\ members[i].name = name
                /\ \A j \in 1..Len(members) : members[j].name = name => j <= i]

NamesOf(members) == {members[i].name : i \in 1..Len(members)}

\* Whether the change list holds an entry of the kind for the name.
HasChange(changes, kind, name) ==
    \E k \in 1..Len(changes) : changes[k].kind = kind /\ changes[k].name = name

\* What C16 says of the change list of the pair (o, n).
ExpectedMemberChanges(changes, o, n) ==
    /\ \A k \in 1..Len(changes) :
          changes[k].name \in NamesOf(o.members) \cup NamesOf(n.members)
    /\ \A name \in NamesOf(o.members) \cup NamesOf(n.members) :
          /\ HasChange(changes, "Removed", name)
                <=> (name \in NamesOf(o.members) /\ name \notin NamesOf(n.members))
          /\ HasChange(changes, "Added", name)
                <=> (name \notin NamesOf(o.members) /\ name \in NamesOf(n.members))
          /\ HasChange(changes, "OffsetChanged", name)
                <=> /\ name \in NamesOf(o.members) \cap NamesOf(n.members)
                    /\ LastNamed(o.members, name).offset # LastNamed(n.members, name).offset
          /\ HasChange(changes, "SizeChanged", name)
                <=> /\ name \in NamesOf(o.members) \cap NamesOf(n.members)
                    /\ LastNamed(o.members, name).size # LastNamed(n.members, name).size
          /\ HasChange(changes, "TypeChanged", name)
                <=> /\ name \in NamesOf(o.members) \cap NamesOf(n.members)
                    /\ LastNamed(o.members, name).type_name
                          # LastNamed(n.members, name).type_name

\* Whether nothing differs between the pair (o, n).
NothingDiffers(o, n) ==
    /\ n.size = o.size
    /\ n.metrics.padding_bytes = o.metrics.padding_bytes
    /\ NamesOf(o.members) = NamesOf(n.members)
    /\ \A name \in NamesOf(o.members) :
          /\ LastNamed(o.members, name).offset = LastNamed(n.members, name).offset
          /\ LastNamed(o.members, name).size = LastNamed(n.members, name).size
          /\ LastNamed(o.members, name).type_name = LastNamed(n.members, name).type_name

\* Scenario E: old {a:u32@0, b:u32@4} of size 8, new {a:u64@0, c:u32@8} of
\* size 16.
ScenarioE ==
    /\ old_layouts[1].members = <<MemberLayout(<<97>>, "u32", 0, 4, None, None),
                                  MemberLayout(<<98>>, "u32", 4, 4, None, None)>>
    /\ new_layouts[1].size = 16
    /\ new_layouts[1].members = <<MemberLayout(<<97>>, "u64", 0, 8, None, None),
                                  MemberLayout(<<99>>, "u32", 8, 4, None, None)>>

\* C16: the change record of a matched pair has size_delta = new size - old
\* size and padding_delta = new padding - old padding; member_changes holds
\* Removed, Added, OffsetChanged, SizeChanged and TypeChanged entries exactly
\* for the names and attributes that differ (a name standing for the last
\* member that carries it); a pair in which nothing differs is counted in
\* unchanged_count and not emitted; scenario E gives one changed entry with
\* size_delta 8, b removed, c added and a type-changed.
C16_ChangeRecordMatchesPair ==
    pc = "diffed" =>
        LET o == old_layouts[1]
            n == new_layouts[1]
        IN /\ diff.added = <<>> /\ diff.removed = <<>>
           /\ IF NothingDiffers(o, n)
              THEN diff.changed = <<>> /\ diff.unchanged_count = 1
              ELSE /\ diff.unchanged_count = 0
                   /\ Len(diff.changed) = 1
                   /\ diff.changed[1].size_delta = n.size - o.size
                   /\ diff.changed[1].padding_delta
                         = n.metrics.padding_bytes - o.metrics.padding_bytes
                   /\ ExpectedMemberChanges(diff.changed[1].member_changes, o, n)
           /\ ScenarioE =>
                 /\ Len(diff.changed) = 1
                 /\ diff.changed[1].size_delta = 8
                 /\ HasChange(diff.changed[1].member_changes, "Removed", <<98>>)
                 /\ HasChange(diff.changed[1].member_changes, "Added", <<99>>)
                 /\ HasChange(diff.changed[1].member_changes, "TypeChanged", <<97>>)

\* Scenario E after the diff.
C16_Witness ==
    /\ pc = "diffed"
    /\ ScenarioE
    /\ Len(diff.changed) = 1
    /\ diff.changed[1].size_delta = 8
    /\ Len(diff.changed[1].member_changes) = 4

(***************************************************************************)
(* dwarf/mod.rs, dwarf/types.rs: the type resolver.                        *)
(*                                                                         *)
(* A unit (dwarf_unit) holds its offset in .debug_info, the address size,  *)
(* the byte order, whether its header can be read, its type entries (the   *)
(* entry at unit offset k is types[k]; unit.entry fails for every other    *)
(* offset) and its struct entries (dies).  A type entry records what the   *)
(* gimli calls on it return:                                               *)
(*   tag        the DW_TAG of the entry;                                   *)
(*   name_attr  "absent" (attr_value gives None), "string" (attr_string    *)
(*              gives name), "bad_string" (attr_string fails) or           *)
(*              "bad_attr" (attr_value fails);                             *)
(*   byte_size  DW_AT_byte_size as read_u64_from_attr returns it;          *)
(*   type_attr  the form of DW_AT_type: "absent", "unit_ref",              *)
(*              "debug_info_ref" or "other", with its target in type_ref;  *)
(*   subranges  DW_AT_count and DW_AT_upper_bound of each subrange child;  *)
(*   walk       "ok" when the children can be iterated.                    *)
(* Type names are strings of character codes.                              *)
(***************************************************************************)
\* The recursion cap of resolve_type_inner.
DepthCap == 20

\* "..."
SentinelName == <<46, 46, 46>>

\* "void"
VoidName == <<118, 111, 105, 100>>

\* "?"
QuestionName == <<63>>

\* "<anonymous>"
AnonymousName == <<60, 97, 110, 111, 110, 121, 109, 111, 117, 115, 62>>

\* "enum"
EnumName == <<101, 110, 117, 109>>

\* "typedef"
TypedefName == <<116, 121, 112, 101, 100, 101, 102>>

\* "fn(...)"
SubroutineName == <<102, 110, 40, 46, 46, 46, 41>>

\* "unknown"
UnknownName == <<117, 110, 107, 110, 111, 119, 110>>

\* format!("?<{:?}>", tag) for the tag DW_TAG_unspecified_type.
UnspecifiedName == <<63, 60, 68, 87, 95, 84, 65, 71, 95, 117, 110, 115, 112, 101, 99, 105, 102, 105, 101, 100, 95, 116, 121, 112, 101, 62>>

\* The literal text of the format strings: "*", "&", "const ", "volatile ",
\* "restrict ", "_Atomic ".
TypePrefix(tag) ==
    CASE tag = "pointer" -> <<42>>
      [] tag = "reference" -> <<38>>
      [] tag = "const" -> <<99, 111, 110, 115, 116, 32>>
      [] tag = "volatile" -> <<118, 111, 108, 97, 116, 105, 108, 101, 32>>
      [] tag = "restrict" -> <<114, 101, 115, 116, 114, 105, 99, 116, 32>>
      [] tag = "atomic" -> <<95, 65, 116, 111, 109, 105, 99, 32>>

\* u64::to_string
RECURSIVE U64ToString(_)
U64ToString(n) == IF n < 10 THEN <<48 + n>> ELSE U64ToString(n \div 10) \o <<48 + (n % 10)>>

\* format!("[{}; {}]", element, count_str)
ArrayName(element, count) ==
    <<91>> \o element \o <<59, 32>> \o (IF IsSome(count) THEN U64ToString(count) ELSE QuestionName) \o <<93>>

\* TypeInfo, as the Ok value of a Result; error is "" for Ok.
TypeOk(name, size, is_atomic) ==
    [error |-> "", name |-> name, size |-> size, is_atomic |-> is_atomic]

\* The Err value of a Result<TypeInfo>.
TypeErr(message) ==
    [error |-> message, name |-> <<>>, size |-> None, is_atomic |-> FALSE]

\* u64::checked_mul and u64::checked_add
CheckedMul(a, b) == IF a * b <= U64_MAX THEN a * b ELSE None

CheckedAdd(a, b) == IF a + b <= U64_MAX THEN a + b ELSE None

\* debug_info_ref_to_unit_offset: the section offset relative to the unit, or
\* None for a reference to before the unit.
DebugInfoRefToUnitOffset(debug_info_offset, unit_debug_offset) ==
    IF debug_info_offset >= unit_debug_offset
    THEN debug_info_offset - unit_debug_offset
    ELSE None

\* get_type_ref: the unit offset DW_AT_type refers to, None for an absent
\* attribute or another form.
GetTypeRef(u, entry) ==
    CASE entry.type_attr = "unit_ref" -> entry.type_ref
      [] entry.type_attr = "debug_info_ref" ->
            DebugInfoRefToUnitOffset(entry.type_ref, u.offset)
      [] OTHER -> None

\* get_type_name: "" when it returns Ok, else the message of its error.
TypeNameError(entry) ==
    CASE entry.name_attr = "bad_string" -> "Failed to read type name"
      [] entry.name_attr = "bad_attr" -> "Failed to read name attr"
      [] OTHER -> ""

\* get_type_name(..)?.unwrap_or_else(default)
TypeNameOr(entry, default) ==
    IF entry.name_attr = "string" THEN entry.name ELSE default

\* The loop of get_array_count over the subrange children: the first
\* DW_AT_count, or DW_AT_upper_bound plus one, that is found.
RECURSIVE CountOfSubranges(_)
CountOfSubranges(subranges) ==
    IF subranges = <<>> THEN None
    ELSE IF IsSome(Head(subranges).count) THEN Head(subranges).count
    ELSE IF IsSome(Head(subranges).upper_bound)
    THEN CheckedAdd(Head(subranges).upper_bound, 1)
    ELSE CountOfSubranges(Tail(subranges))

GetArrayCount(entry) == CountOfSubranges(entry.subranges)

\* unit.entry(offset) succeeds.
HasEntry(u, offset) == offset \in 1..Len(u.types)

ExceedsCapLate(depth) == depth > DepthCap + 1

\* The guard that ends the recursion.
ExceedsCap(depth) == depth > DepthCap

\* The is_atomic argument of the recursive call for the entry's tag.
InnerAtomicArg(tag, is_atomic) ==
    CASE tag \in {"pointer", "reference"} -> FALSE
      [] tag = "atomic" -> TRUE
      [] OTHER -> is_atomic

\* Tags whose arm follows DW_AT_type.
ReferringTags ==
    {"pointer", "reference", "const", "volatile", "restrict", "atomic", "typedef", "array"}

\* The name an arm without recursion gives an entry that has no readable name.
DefaultTypeName(tag) ==
    CASE tag = "base" -> QuestionName
      [] tag \in {"structure", "class", "union"} -> AnonymousName
      [] tag = "enumeration" -> EnumName
      [] OTHER -> UnspecifiedName

\* The array arm after its element type is known.
ArrayResult(entry, element) ==
    IF entry.walk # "ok" THEN TypeErr("Failed to iterate")
    ELSE LET count == GetArrayCount(entry)
             product == IF IsSome(element.size) /\ IsSome(count)
                        THEN CheckedMul(element.size, count) ELSE None
             size == IF IsSome(product) THEN product ELSE entry.byte_size
         IN TypeOk(ArrayName(element.name, count), size, element.is_atomic)

\* What an arm returns when DW_AT_type gives no reference.
WithoutTypeRef(u, entry, is_atomic) ==
    CASE entry.tag \in {"pointer", "reference"} ->
            TypeOk(TypePrefix(entry.tag) \o VoidName, u.address_size, is_atomic)
      [] entry.tag \in {"const", "volatile", "restrict"} ->
            TypeOk(TypePrefix(entry.tag) \o VoidName, None, is_atomic)
      [] entry.tag = "atomic" -> TypeOk(TypePrefix(entry.tag) \o VoidName, None, TRUE)
      [] entry.tag = "typedef" -> TypeOk(TypeNameOr(entry, TypedefName), None, is_atomic)
      [] entry.tag = "array" -> ArrayResult(entry, TypeOk(QuestionName, None, is_atomic))

\* What an arm returns once the recursive call has returned Ok(inner).
WithTypeRef(u, entry, is_atomic, inner) ==
    CASE entry.tag \in {"pointer", "reference"} ->
            TypeOk(TypePrefix(entry.tag) \o inner.name, u.address_size, is_atomic)
      [] entry.tag \in {"const", "volatile", "restrict"} ->
            TypeOk(TypePrefix(entry.tag) \o inner.name, inner.size, inner.is_atomic)
      [] entry.tag = "atomic" -> TypeOk(TypePrefix(entry.tag) \o inner.name, inner.size, TRUE)
      [] entry.tag = "typedef" ->
            TypeOk(TypeNameOr(entry, TypedefName), inner.size, inner.is_atomic \/ is_atomic)
      [] entry.tag = "array" -> ArrayResult(entry, inner)

\* The arms that never recurse.
LeafResult(u, entry, is_atomic) ==
    IF entry.tag = "subroutine" THEN TypeOk(SubroutineName, u.address_size, is_atomic)
    ELSE IF TypeNameError(entry) # "" THEN TypeErr(TypeNameError(entry))
    ELSE TypeOk(TypeNameOr(entry, DefaultTypeName(entry.tag)), entry.byte_size, is_atomic)

\* A subrange child of an array entry.
Subrange(count, upper_bound) == [count |-> count, upper_bound |-> upper_bound]

\* A type entry of a unit.
TypeEntry(tag, name_attr, name, byte_size, type_attr, type_ref, subranges) ==
    [tag |-> tag, name_attr |-> name_attr, name |-> name, byte_size |-> byte_size,
     type_attr |-> type_attr, type_ref |-> type_ref, subranges |-> subranges,
     walk |-> "ok"]

\* A unit that dwarf.unit(header) parsed.
Unit(offset, address_size, types, dies) ==
    [offset |-> offset, address_size |-> address_size, endian |-> "little",
     header |-> "ok", types |-> types, dies |-> dies]

\* A call of resolve_type_inner that is running.
Frame(offset, depth, is_atomic) ==
    [offset |-> offset, depth |-> depth, is_atomic |-> is_atomic]

\* The resolver of a unit: its cache, the offset resolve_type was called
\* with, and the value the last call returned (a sequence of at most one).
Resolver(cache, offset, result) == [cache |-> cache, offset |-> offset, result |-> result]

\* TypeResolver::new
NewResolver == Resolver(<<>>, 0, <<>>)

\* A `?` on an Err inside resolve_type_inner: every running call returns the
\* error and resolve_type returns it without caching.
Propagate(err) ==
    /\ calls' = <<>>
    /\ resolved' = [resolved EXCEPT !.result = <<err>>]
    /\ pc' = "resolved"

\* A call of resolve_type_inner returns Ok to the call that made it.
ReturnOk(info) ==
    /\ calls' = SubSeq(calls, 1, Len(calls) - 1)
    /\ resolved' = [resolved EXCEPT !.result = <<info>>]
    /\ pc' = "ret"

\* CallResolveType answering a request from any cached entry.
CallResolveTypeFromAnyEntry(offset) ==
    IF DOMAIN resolved.cache # {}
    THEN /\ resolved' = [resolved EXCEPT
                !.offset = offset,
                !.result = <<resolved.cache[CHOOSE o \in DOMAIN resolved.cache :
                                 \A q \in DOMAIN resolved.cache : o <= q]>>]
         /\ calls' = <<>>
         /\ pc' = "resolved"
    ELSE /\ resolved' = [resolved EXCEPT !.offset = offset, !.result = <<>>]
         /\ calls' = <<Frame(offset, 0, FALSE)>>
         /\ pc' = "call"

\* resolve_type up to its call of resolve_type_inner: a cached offset returns
\* at once.
CallResolveType(offset) ==
    IF offset \in DOMAIN resolved.cache
    THEN /\ resolved' = [resolved EXCEPT !.offset = offset,
                                         !.result = <<resolved.cache[offset]>>]
         /\ calls' = <<>>
         /\ pc' = "resolved"
    ELSE /\ resolved' = [resolved EXCEPT !.offset = offset, !.result = <<>>]
         /\ calls' = <<Frame(offset, 0, FALSE)>>
         /\ pc' = "call"

\* resolve_type_inner from its entry to its recursive call or its return.
Enter ==
    /\ pc = "call"
    /\ LET top == calls[Len(calls)]
           entry == dwarf_unit.types[top.offset]
           type_ref == GetTypeRef(dwarf_unit, entry)
       IN IF ExceedsCap(top.depth)
          THEN ReturnOk(TypeOk(SentinelName, None, top.is_atomic))
          ELSE IF ~HasEntry(dwarf_unit, top.offset)
          THEN Propagate(TypeErr("Failed to get type entry"))
          ELSE IF entry.tag \notin ReferringTags
          THEN IF LeafResult(dwarf_unit, entry, top.is_atomic).error # ""
               THEN Propagate(LeafResult(dwarf_unit, entry, top.is_atomic))
               ELSE ReturnOk(LeafResult(dwarf_unit, entry, top.is_atomic))
          ELSE IF entry.tag = "typedef" /\ TypeNameError(entry) # ""
          THEN Propagate(TypeErr(TypeNameError(entry)))
          ELSE IF IsSome(type_ref)
          THEN /\ calls' = Append(calls, Frame(type_ref, top.depth + 1,
                                               InnerAtomicArg(entry.tag, top.is_atomic)))
               /\ pc' = "call"
               /\ UNCHANGED resolved
          ELSE IF WithoutTypeRef(dwarf_unit, entry, top.is_atomic).error # ""
          THEN Propagate(WithoutTypeRef(dwarf_unit, entry, top.is_atomic))
          ELSE ReturnOk(WithoutTypeRef(dwarf_unit, entry, top.is_atomic))
    /\ UNCHANGED <<layout, cache_line_size, max_align, fs_a, fs_b, opt, opt2,
                   diffVars, dwarf_unit, structs>>

\* The rest of an arm after its recursive call returned Ok, and the rest of
\* resolve_type after resolve_type_inner returned Ok: the result is cached.
Return ==
    /\ pc = "ret"
    /\ LET inner == resolved.result[1]
       IN IF calls = <<>>
          THEN /\ resolved' = [resolved EXCEPT
                                  !.cache = (resolved.offset :> inner) @@ resolved.cache]
               /\ pc' = "resolved"
               /\ UNCHANGED calls
          ELSE LET top == calls[Len(calls)]
                   entry == dwarf_unit.types[top.offset]
                   result == WithTypeRef(dwarf_unit, entry, top.is_atomic, inner)
               IN IF result.error # "" THEN Propagate(result) ELSE ReturnOk(result)
    /\ UNCHANGED <<layout, cache_line_size, max_align, fs_a, fs_b, opt, opt2,
                   diffVars, dwarf_unit, structs>>


(***************************************************************************)
(* SpecResolve: one TypeResolver on a unit whose type references may form  *)
(* cycles; resolve_type is called for one offset after another.            *)
(***************************************************************************)
\* Largest number of type entries of a generated unit.
MaxTypes == 2

\* The forms of DW_AT_type of a generated entry of a unit of n entries that
\* starts at section offset 1: <<form, target>>.
TypeRefs(n) ==
    {<<"absent", 0>>, <<"debug_info_ref", 0>>, <<"debug_info_ref", 2>>}
        \cup {<<"unit_ref", k>> : k \in 1..n}

\* The type entries of a generated unit of n entries: int, and pointers,
\* const qualifiers, atomic wrappers, typedefs named t and arrays of two.
ResolveEntries(n) ==
    {TypeEntry("base", "string", <<105, 110, 116>>, 4, "absent", 0, <<>>)}
        \cup {TypeEntry(tag, "absent", <<>>, None, r[1], r[2], <<>>) :
                  tag \in {"pointer", "const", "atomic"}, r \in TypeRefs(n)}
        \cup {TypeEntry("typedef", "string", <<116>>, None, r[1], r[2], <<>>) :
                  r \in TypeRefs(n)}
        \cup {TypeEntry("array", "absent", <<>>, None, r[1], r[2], <<Subrange(2, None)>>) :
                  r \in TypeRefs(n)}

ResolveUnits ==
    UNION {{Unit(1, 8, types, <<>>) : types \in [1..n -> ResolveEntries(n)]} :
           n \in 1..MaxTypes}

InitResolve ==
    /\ pc = "start"
    /\ layout = StructLayout("Test", 0, None, <<>>)
    /\ cache_line_size = 64
    /\ max_align = 8
    /\ fs_a = NoAnalysis
    /\ fs_b = NoAnalysis
    /\ opt = NoOptimized
    /\ opt2 = NoOptimized
    /\ DiffIdle
    /\ dwarf_unit \in ResolveUnits
    /\ calls = <<>>
    /\ resolved = NewResolver
    /\ structs = <<>>

\* resolve_type is called with the offset of an entry of the unit.
ResolveType ==
    /\ pc \in {"start", "resolved"}
    /\ \E offset \in 1..Len(dwarf_unit.types) : CallResolveType(offset)
    /\ UNCHANGED <<layout, cache_line_size, max_align, fs_a, fs_b, opt, opt2,
                   diffVars, dwarf_unit, structs>>

NextResolve == ResolveType \/ Enter \/ Return

SpecResolve == InitResolve /\ [][NextResolve]_vars

\* A call that is running takes its next step.
SpecResolveFair == SpecResolve /\ WF_vars(Enter) /\ WF_vars(Return)

\* The depth of every running call of resolve_type_inner is the number of
\* calls below it and at most one above the cap, and the call above the cap
\* returned the sentinel name with unknown size.
DepthCapped ==
    /\ \A i \in 1..Len(calls) : calls[i].depth = i - 1 /\ calls[i].depth <= DepthCap + 1
    /\ (pc = "ret" /\ Len(calls) = DepthCap + 1) =>
           /\ resolved.result[1].name = SentinelName
           /\ resolved.result[1].size = None

\* C17: resolve_type terminates for every type graph, cycles included: the
\* recursion never goes deeper than one call above the cap of 20 nested type
\* references, the call above the cap returns the sentinel name "..." with
\* unknown size without recursing, and every call of resolve_type returns.
C17_ResolveTypeTerminates == [](DepthCapped) /\ (pc = "call" ~> pc = "resolved")

\* A pointer to itself has been resolved: 21 stars and the sentinel.
C17_Witness ==
    /\ pc = "resolved"
    /\ calls = <<>>
    /\ resolved.result # <<>>
    /\ resolved.result[1].error = ""
    /\ Len(resolved.result[1].name) = DepthCap + 1 + Len(SentinelName)
    /\ SubSeq(resolved.result[1].name, DepthCap + 2, DepthCap + 4) = SentinelName
    /\ resolved.result[1].size = 8

(***************************************************************************)
(* dwarf/context.rs: find_structs, with no name filter and the Go runtime  *)
(* types included, on a binary of one unit.  A struct entry (an element of *)
(* dies) records its tag ("unreadable" when next_dfs fails at it), its     *)
(* name as a type entry does, DW_AT_byte_size, DW_AT_alignment, the        *)
(* declaration location get_source_location finds, whether its children    *)
(* can be walked, and its children.  A child records its tag, its name,    *)
(* DW_AT_type, the offset get_member_offset finds and the bitfield         *)
(* attributes.                                                             *)
(***************************************************************************)
\* A child entry of a struct entry.
ChildDie(tag, name_attr, name, type_attr, type_ref, location, bit_size, data_bit_offset, bit_offset) ==
    [tag |-> tag, name_attr |-> name_attr, name |-> name, type_attr |-> type_attr,
     type_ref |-> type_ref, location |-> location, bit_size |-> bit_size,
     data_bit_offset |-> data_bit_offset, bit_offset |-> bit_offset]

\* An entry the walk of process_unit visits.
StructDie(tag, name_attr, name, byte_size, alignment, decl, children) ==
    [tag |-> tag, name_attr |-> name_attr, name |-> name, byte_size |-> byte_size,
     alignment |-> alignment, decl |-> decl, walk |-> "ok", children |-> children]

\* get_die_name: "" when it returns Ok, else the message of its error.
DieNameError(entry) ==
    CASE entry.name_attr = "bad_string" -> "Failed to read name"
      [] entry.name_attr = "bad_attr" -> "Failed to read name attribute"
      [] OTHER -> ""

\* str::starts_with on strings of character codes.
HasPrefix(str, prefix) ==
    Len(str) >= Len(prefix) /\ SubSeq(str, 1, Len(prefix)) = prefix

\* u64::saturating_mul
SaturatingMul(a, b) == Min(a * b, U64_MAX)

\* MemberLayout::with_atomic
WithAtomic(m, is_atomic) ==
    [f \in DOMAIN m \cup {"is_atomic"} |-> IF f = "is_atomic" THEN is_atomic ELSE m[f]]

\* The storage unit of a bitfield without DW_AT_data_member_location: the
\* absolute bit offset rounded down to a multiple of the storage size.
ContainerOffset(offset, data_bit_offset, storage_bytes) ==
    IF IsSome(offset) THEN offset
    ELSE IF IsSome(data_bit_offset)
    THEN CheckedMul((data_bit_offset \div 8) \div storage_bytes, storage_bytes)
    ELSE None

\* The bit offset within the storage unit.
BitOffsetInUnit(u, c, container_offset, storage_bits) ==
    IF ~IsSome(container_offset) THEN None
    ELSE IF IsSome(c.data_bit_offset)
    THEN IF IsSome(CheckedMul(container_offset, 8))
         THEN SaturatingSub(c.data_bit_offset, container_offset * 8)
         ELSE None
    ELSE IF IsSome(c.bit_offset)
    THEN IF IsSome(CheckedAdd(c.bit_offset, c.bit_size))
            /\ c.bit_offset + c.bit_size <= storage_bits
         THEN IF u.endian = "little"
              THEN storage_bits - c.bit_offset - c.bit_size
              ELSE c.bit_offset
         ELSE None
    ELSE None

\* process_member after resolve_type_attr returned Ok(info).
ProcessMember(u, c, info) ==
    LET name == IF c.name_attr = "string" THEN c.name ELSE AnonymousName
        is_bitfield == IsSome(c.bit_size) /\ IsSome(info.size) /\ info.size > 0
        container_offset == ContainerOffset(c.location, c.data_bit_offset, info.size)
        offset == IF is_bitfield /\ ~IsSome(c.location) THEN container_offset
                  ELSE c.location
        bit_offset == IF is_bitfield
                      THEN BitOffsetInUnit(u, c, container_offset,
                                           SaturatingMul(info.size, 8))
                      ELSE None
    IN WithAtomic(MemberLayout(name, info.name, offset, info.size, bit_offset, c.bit_size),
                  info.is_atomic)

\* process_inheritance after resolve_type_attr returned Ok(info).
ProcessInheritance(c, info) ==
    WithAtomic(MemberLayout(<<60, 98, 97, 115, 101, 58, 32>> \o info.name \o <<62>>, info.name, c.location,
                            info.size, None, None),
               info.is_atomic)

\* The member of a child whose type is info.
MemberOfChild(u, c, info) ==
    IF c.tag = "member" THEN ProcessMember(u, c, info) ELSE ProcessInheritance(c, info)

\* members.sort_by_key(|m| m.offset.unwrap_or(u64::MAX))
SortMembers(members) ==
    StableSort(members, [i \in 1..Len(members), j \in 1..Len(members) |->
                            OffsetSortKey(members[i]) < OffsetSortKey(members[j])])

\* MemberFingerprint::cmp as a strict order.
MemberFingerprintLess(a, b) ==
    IF a.name # b.name THEN StrLess(a.name, b.name)
    ELSE IF a.type_name # b.type_name THEN StrLess(a.type_name, b.type_name)
    ELSE IF a.offset # b.offset THEN a.offset < b.offset
    ELSE IF a.size # b.size THEN a.size < b.size
    ELSE IF a.bit_offset # b.bit_offset THEN a.bit_offset < b.bit_offset
    ELSE IF a.bit_size # b.bit_size THEN a.bit_size < b.bit_size
    ELSE ~a.is_atomic /\ b.is_atomic

\* Vec<MemberFingerprint>::cmp as a strict order.
RECURSIVE MembersFingerprintLess(_, _)
MembersFingerprintLess(a, b) ==
    IF b = <<>> THEN FALSE
    ELSE IF a = <<>> THEN TRUE
    ELSE IF Head(a) # Head(b) THEN MemberFingerprintLess(Head(a), Head(b))
    ELSE MembersFingerprintLess(Tail(a), Tail(b))

\* StructFingerprint::cmp as a strict order.
StructFingerprintLess(a, b) ==
    IF a.name # b.name THEN StrLess(a.name, b.name)
    ELSE IF a.size # b.size THEN a.size < b.size
    ELSE IF a.alignment # b.alignment THEN a.alignment < b.alignment
    ELSE IF a.source_location # b.source_location
    THEN LocationLess(a.source_location, b.source_location)
    ELSE MembersFingerprintLess(a.members, b.members)

\* struct_fingerprint(a) == struct_fingerprint(b)
SameFingerprint(a, b) ==
    /\ a.name = b.name
    /\ a.size = b.size
    /\ a.alignment = b.alignment
    /\ a.source_location = b.source_location
    /\ a.members = b.members

\* Vec::dedup_by on equal fingerprints: of consecutive equal elements the
\* first is kept.
RECURSIVE DedupByFingerprint(_)
DedupByFingerprint(s) ==
    IF Len(s) <= 1 THEN s
    ELSE IF SameFingerprint(s[1], s[2]) THEN DedupByFingerprint(<<s[1]>> \o SubSeq(s, 3, Len(s)))
    ELSE <<s[1]>> \o DedupByFingerprint(Tail(s))

\* The end of find_structs: sort by fingerprint, then index, and drop exact
\* duplicates.
Deduplicated(found) ==
    DedupByFingerprint(
        StableSort(found, [i \in 1..Len(found), j \in 1..Len(found) |->
                              StructFingerprintLess(found[i], found[j])]))

\* The state of a find_structs call: the structs pushed so far, the index of
\* the entry and of the child being processed, the members collected for the
\* entry, and "" while it runs, "ok" or the message of the error it returned.
Extraction(found, die, child, members, result) ==
    [found |-> found, die |-> die, child |-> child, members |-> members,
     result |-> result]

\* find_structs returns Err(message).
Fail(message) ==
    /\ structs' = [structs EXCEPT !.result = message]
    /\ pc' = "done"
    /\ UNCHANGED <<calls, resolved>>

\* The layout process_struct_entry returns for the entry and its members.
LayoutOfDie(e, members) ==
    [StructLayout(e.name, e.byte_size, e.alignment, SortMembers(members))
        EXCEPT !.source_location = e.decl]

\* find_structs up to the walk of the unit's entries; process_unit creates the
\* unit's resolver.
FindStructs ==
    /\ pc = "start"
    /\ IF dwarf_unit.header # "ok"
       THEN /\ structs' = Extraction(<<>>, 1, 1, <<>>, "Failed to read unit header")
            /\ pc' = "done"
            /\ UNCHANGED <<calls, resolved>>
       ELSE /\ structs' = Extraction(<<>>, 1, 1, <<>>, "")
            /\ resolved' = NewResolver
            /\ pc' = "unit"
            /\ UNCHANGED calls
    /\ UNCHANGED <<layout, cache_line_size, max_align, fs_a, fs_b, opt, opt2,
                   diffVars, dwarf_unit>>

\* One turn of the loop of process_unit: process_struct_entry up to the loop
\* of extract_members; after the last entry, the end of find_structs.
NextDie ==
    /\ pc = "unit"
    /\ IF structs.die > Len(dwarf_unit.dies)
       THEN /\ structs' = [structs EXCEPT !.found = Deduplicated(structs.found),
                                          !.result = "ok"]
            /\ pc' = "done"
            /\ UNCHANGED <<calls, resolved>>
       ELSE LET e == dwarf_unit.dies[structs.die]
                skip == /\ structs' = [structs EXCEPT !.die = structs.die + 1]
                        /\ pc' = "unit"
                        /\ UNCHANGED <<calls, resolved>>
            IN IF e.tag = "unreadable" THEN Fail("Failed to read DIE")
               ELSE IF e.tag \notin {"structure", "class"} THEN skip
               ELSE IF ~IsSome(e.byte_size) THEN skip
               ELSE IF DieNameError(e) # "" THEN Fail(DieNameError(e))
               ELSE IF e.name_attr # "string" \/ HasPrefix(e.name, <<95, 95>>) THEN skip
               ELSE IF e.walk # "ok" THEN Fail("Failed to create entries tree")
               ELSE /\ structs' = [structs EXCEPT !.child = 1, !.members = <<>>]
                    /\ pc' = "members"
                    /\ UNCHANGED <<calls, resolved>>
    /\ UNCHANGED <<layout, cache_line_size, max_align, fs_a, fs_b, opt, opt2,
                   diffVars, dwarf_unit>>

\* One turn of the loop of extract_members, up to the call of resolve_type;
\* after the last child, the members are sorted and the layout is pushed.
NextChild ==
    /\ pc = "members"
    /\ LET e == dwarf_unit.dies[structs.die]
       IN IF structs.child > Len(e.children)
          THEN /\ structs' = [structs EXCEPT
                                 !.found = Append(structs.found,
                                                  LayoutOfDie(e, structs.members)),
                                 !.die = structs.die + 1]
               /\ pc' = "unit"
               /\ UNCHANGED <<calls, resolved>>
          ELSE LET c == e.children[structs.child]
                   type_ref == GetTypeRef(dwarf_unit, c)
               IN IF c.tag \notin {"member", "inheritance"}
                  THEN /\ structs' = [structs EXCEPT !.child = structs.child + 1]
                       /\ pc' = "members"
                       /\ UNCHANGED <<calls, resolved>>
                  ELSE IF c.tag = "member" /\ DieNameError(c) # ""
                  THEN Fail(DieNameError(c))
                  ELSE IF IsSome(type_ref)
                  THEN /\ CallResolveType(type_ref)
                       /\ UNCHANGED structs
                  ELSE /\ structs' = [structs EXCEPT
                                         !.members = Append(structs.members,
                                             MemberOfChild(dwarf_unit, c,
                                                 TypeOk(UnknownName, None, FALSE))),
                                         !.child = structs.child + 1]
                       /\ pc' = "members"
                       /\ UNCHANGED <<calls, resolved>>
    /\ UNCHANGED <<layout, cache_line_size, max_align, fs_a, fs_b, opt, opt2,
                   diffVars, dwarf_unit>>

\* The rest of process_member or process_inheritance after resolve_type
\* returned: an error is returned by find_structs, a type makes the member.
ChildResolved ==
    /\ pc = "resolved"
    /\ LET info == resolved.result[1]
           c == dwarf_unit.dies[structs.die].children[structs.child]
       IN IF info.error # ""
          THEN Fail(info.error)
          ELSE /\ structs' = [structs EXCEPT
                                 !.members = Append(structs.members,
                                                    MemberOfChild(dwarf_unit, c, info)),
                                 !.child = structs.child + 1]
               /\ pc' = "members"
               /\ UNCHANGED <<calls, resolved>>
    /\ UNCHANGED <<layout, cache_line_size, max_align, fs_a, fs_b, opt, opt2,
                   diffVars, dwarf_unit>>


(***************************************************************************)
(* SpecExtract: find_structs on a unit whose entries are partly            *)
(* unreadable.                                                             *)
(***************************************************************************)
\* Largest number of children of a generated struct entry.
MaxChildren == 2

\* The type entries of the generated units: int at offset 1, a base type
\* whose name string cannot be read at 2, a pointer whose DW_AT_type refers
\* to offset 9, outside the unit, at 3, and a typedef t of int at 4.
ExtractTypes ==
    <<TypeEntry("base", "string", <<105, 110, 116>>, 4, "absent", 0, <<>>),
      TypeEntry("base", "bad_string", <<>>, 4, "absent", 0, <<>>),
      TypeEntry("pointer", "absent", <<>>, None, "unit_ref", 9, <<>>),
      TypeEntry("typedef", "string", <<116>>, None, "unit_ref", 1, <<>>)>>

\* The children of the generated struct entries: members at offset 0 named
\* a, unnamed, or with an unreadable name, whose DW_AT_type is absent, refers
\* to an entry of the unit or to before the unit; a member b: int at offset
\* 4, a member a: int without offset, base subobjects, and a child that is
\* no member.
ExtractChildren ==
    {ChildDie("member", n[1], n[2], t[1], t[2], 0, None, None, None) :
        n \in {<<"string", <<97>>>>, <<"absent", <<>>>>, <<"bad_string", <<>>>>},
        t \in {<<"absent", 0>>, <<"unit_ref", 1>>, <<"unit_ref", 2>>, <<"unit_ref", 3>>,
               <<"unit_ref", 4>>, <<"debug_info_ref", 0>>}}
        \cup {ChildDie("member", "string", <<98>>, "unit_ref", 1, 4, None, None, None),
              ChildDie("member", "string", <<97>>, "unit_ref", 1, None, None, None, None),
              ChildDie("inheritance", "absent", <<>>, "unit_ref", 1, 0, None, None, None),
              ChildDie("inheritance", "absent", <<>>, "absent", 0, 0, None, None, None),
              ChildDie("other", "absent", <<>>, "absent", 0, None, None, None, None)}

ExtractChildLists ==
    UNION {[1..n -> ExtractChildren] : n \in 0..MaxChildren}

\* The struct entry under test: S, unnamed or with an unreadable name, with
\* or without a size.
ExtractDies ==
    {StructDie("structure", n[1], n[2], size, None, NoLocation, children) :
        n \in {<<"string", <<83>>>>, <<"absent", <<>>>>, <<"bad_string", <<>>>>},
        size \in {None, 8},
        children \in ExtractChildLists}

\* The entries next to it: the struct T {b: int at 4} of size 8, and an
\* entry at which the walk fails.
PlainDie ==
    StructDie("structure", "string", <<84>>, 8, None, NoLocation,
              <<ChildDie("member", "string", <<98>>, "unit_ref", 1, 4, None, None, None)>>)

UnreadableDie == StructDie("unreadable", "absent", <<>>, None, None, NoLocation, <<>>)

ExtractUnits ==
    {Unit(1, 8, ExtractTypes, dies) :
        dies \in UNION {{<<d>>, <<d, PlainDie>>, <<PlainDie, d>>, <<d, UnreadableDie>>} :
                        d \in ExtractDies}}
        \cup {[Unit(1, 8, ExtractTypes, <<PlainDie>>) EXCEPT !.header = "unreadable"]}

InitExtract ==
    /\ pc = "start"
    /\ layout = StructLayout("Test", 0, None, <<>>)
    /\ cache_line_size = 64
    /\ max_align = 8
    /\ fs_a = NoAnalysis
    /\ fs_b = NoAnalysis
    /\ opt = NoOptimized
    /\ opt2 = NoOptimized
    /\ DiffIdle
    /\ dwarf_unit \in ExtractUnits
    /\ calls = <<>>
    /\ resolved = NewResolver
    /\ structs = Extraction(<<>>, 1, 1, <<>>, "")

NextExtract == FindStructs \/ NextDie \/ NextChild \/ Enter \/ Return \/ ChildResolved

SpecExtract == InitExtract /\ [][NextExtract]_vars

\* The errors of the walk: the unit header, the entry tree, the children.
StructuralErrors ==
    {"Failed to read unit header", "Failed to parse unit", "Failed to read DIE",
     "Failed to create entries tree", "Failed to get tree root",
     "Failed to iterate children"}

\* C18: per-field failures never fail the extraction: resolve_type returns a
\* type, not an error, when a name cannot be read or a type reference cannot
\* be followed, and find_structs returns an error only when the unit header
\* or the entry tree cannot be read.
C18_PerFieldFailuresNeverFail ==
    /\ (pc = "resolved" => resolved.result[1].error = "")
    /\ (pc = "done" => structs.result \in {"ok"} \cup StructuralErrors)

(***************************************************************************)
(* SpecRobust: one call of analyze_layout, analyze_false_sharing or        *)
(* optimize_layout on a layout with members at the end of the 64-bit       *)
(* range, for cache-line sizes and alignment caps that include 0.          *)
(***************************************************************************)
\* Largest number of members of a layout with out-of-range members.
MaxRobustMembers == 2

\* Atomic members of one or two bytes at offset 0, just below 2^63 and just
\* below 2^64; plain members at offset 0 of two bytes, of more than 2^63
\* bytes, of u64::MAX bytes, and of unknown size.
RobustMembers ==
    {MemberLayout(n, "std::sync::atomic::AtomicU64", o, s, None, None) :
        n \in {<<97>>, <<98>>}, o \in {0, I64_MAX - 1, U64_MAX - 1}, s \in {1, 2}}
        \cup {MemberLayout(<<99>>, "u64", 0, s, None, None) :
                  s \in {None, 2, I64_MAX + 2, U64_MAX}}

RobustStructSizes == {0, 8, U64_MAX}

RobustCacheLineSizes == {0, 1, 64}

RobustMaxAligns == {0, 8, U64_MAX}

InitRobust ==
    /\ pc = "start"
    /\ \E n \in 0..MaxRobustMembers : \E ms \in [1..n -> RobustMembers] :
          /\ SortedByOffset(ms)
          /\ \E sz \in RobustStructSizes : layout = StructLayout("TestStruct", sz, None, ms)
    /\ cache_line_size \in RobustCacheLineSizes
    /\ max_align \in RobustMaxAligns
    /\ fs_a = NoAnalysis
    /\ fs_b = NoAnalysis
    /\ opt = NoOptimized
    /\ opt2 = NoOptimized
    /\ DiffIdle
    /\ DwarfIdle

NextRobust == AnalyzeLayout \/ AnalyzeFalseSharing \/ Optimize

SpecRobust == InitRobust /\ [][NextRobust]_vars

\* C19: analyze_layout, analyze_false_sharing and optimize_layout return a
\* result for every layout, every cache_line_size > 0 and every max_align,
\* without aborting and without arithmetic wrap-around, also for members
\* whose offset + size exceeds the 64-bit range or whose size is above 2^63;
\* the only abort is the assertion of analyze_layout on cache_line_size 0.
C19_NoAbortNoWrapAround ==
    /\ cache_line_size > 0 => pc \notin {"aborted", "wrapped", "assert_failed"}
    /\ pc = "assert_failed" => cache_line_size = 0

(***************************************************************************)
(* SpecFSRange: one call of analyze_false_sharing with 64-byte cache lines *)
(* on atomic members placed anywhere in the 64-bit range.                  *)
(***************************************************************************)
\* Largest number of members of such a layout.
MaxRangeMembers == 2

\* Atomic members of 1 byte, 8 bytes and more than 2^63 bytes at offsets 0,
\* 8, 60 and u64::MAX.
RangeMembers ==
    {MemberLayout(n, "std::sync::atomic::AtomicU64", o, s, None, None) :
        n \in {<<97>>, <<98>>}, o \in {0, 8, 60, U64_MAX}, s \in {1, 8, I64_MAX + 2}}

InitFSRange ==
    /\ pc = "start"
    /\ \E n \in 0..MaxRangeMembers : \E ms \in [1..n -> RangeMembers] :
          /\ SortedByOffset(ms)
          /\ layout = StructLayout("TestStruct", 64, None, ms)
    /\ cache_line_size = 64
    /\ max_align = 8
    /\ fs_a = NoAnalysis
    /\ fs_b = NoAnalysis
    /\ opt = NoOptimized
    /\ opt2 = NoOptimized
    /\ DiffIdle
    /\ DwarfIdle

NextFSRange == AnalyzeFalseSharing

SpecFSRange == InitFSRange /\ [][NextFSRange]_vars

\* analyze_false_sharing has returned, in either build.
FsReturned == pc \in {"analyzed", "wrapped"}

\* The start and end line of a member as the claim defines them.
StartLine(m) == m.offset \div cache_line_size

EndLine(m) == (m.offset + m.size - 1) \div cache_line_size

\* The spanning warnings C21 expects: one for every qualifying member whose
\* two lines differ, in member order.
ExpectedSpanning ==
    LET kept == SelectSeq(layout.members,
                    LAMBDA m : QualifiesAsAtomic(m) /\ StartLine(m) # EndLine(m))
    IN [k \in 1..Len(kept) |->
            [member |-> kept[k].name, type_name |-> kept[k].type_name,
             offset |-> kept[k].offset, size |-> kept[k].size,
             start_cache_line |-> StartLine(kept[k]),
             end_cache_line |-> EndLine(kept[k]),
             lines_spanned |-> EndLine(kept[k]) - StartLine(kept[k]) + 1]]

\* C21: for each qualifying atomic member the start line is offset / L and
\* the end line is (offset + size - 1) / L; a spanning warning is emitted for
\* the member exactly when the two differ, with lines_spanned = end line -
\* start line + 1 (at least 2), also when the struct has only one atomic
\* member: an 8-byte atomic at offset 60 with L = 64 has spans_cache_lines
\* true and one spanning warning with lines_spanned 2.
C21_SpanningWhenLinesDiffer ==
    FsReturned =>
        LET kept == SelectSeq(layout.members, QualifiesAsAtomic)
        IN /\ Len(fs_a.atomic_members) = Len(kept)
           /\ \A k \in 1..Len(kept) :
                 /\ fs_a.atomic_members[k].cache_line = StartLine(kept[k])
                 /\ fs_a.atomic_members[k].end_cache_line = EndLine(kept[k])
                 /\ fs_a.atomic_members[k].spans_cache_lines
                       = (StartLine(kept[k]) # EndLine(kept[k]))
           /\ fs_a.spanning_warnings = ExpectedSpanning
           /\ \A k \in 1..Len(fs_a.spanning_warnings) :
                 fs_a.spanning_warnings[k].lines_spanned >= 2

\* Two 8-byte atomics at offsets 0 and 8.
AdjacentAtomics ==
    <<MemberLayout(<<97>>, "std::sync::atomic::AtomicU64", 0, 8, None, None),
      MemberLayout(<<98>>, "std::sync::atomic::AtomicU64", 8, 8, None, None)>>

\* The warning w is for the members at positions i and j, the one at i
\* having the lower or equal offset, with the gap between them.
GapIsFor(w, i, j) ==
    LET a == layout.members[i]
        b == layout.members[j]
    IN /\ i # j
       /\ QualifiesAsAtomic(a) /\ QualifiesAsAtomic(b)
       /\ w.member_a = a.name /\ w.member_b = b.name
       /\ a.offset <= b.offset
       /\ w.gap_bytes = b.offset - (a.offset + a.size)

\* C22: in every pairwise warning member_a is the member with the lower (or
\* equal) offset and gap_bytes = member_b.offset - (member_a.offset +
\* member_a.size): 0 for adjacent members, negative for overlapping ones
\* and, when positive, strictly smaller than the cache-line size.  Two
\* 8-byte atomics at offsets 0 and 8 with L = 64 give exactly one warning
\* with cache_line 0 and gap_bytes 0.
C22_GapIsDistanceBetweenMembers ==
    FsReturned =>
        /\ \A k \in 1..Len(fs_a.warnings) :
              /\ \E i, j \in 1..Len(layout.members) : GapIsFor(fs_a.warnings[k], i, j)
              /\ fs_a.warnings[k].gap_bytes > 0
                    => fs_a.warnings[k].gap_bytes < cache_line_size
        /\ (layout.members = AdjacentAtomics /\ cache_line_size = 64) =>
              fs_a.warnings = <<[member_a |-> <<97>>, member_b |-> <<98>>,
                                 cache_line |-> 0, gap_bytes |-> 0]>>

(***************************************************************************)
(* SpecOptRange: one call of optimize_layout on layouts whose members have *)
(* sizes up to u64::MAX, for declared alignments and alignment caps that   *)
(* include 0, and on the padded struct char, int, char.                    *)
(***************************************************************************)
\* Largest number of members of such a layout.
MaxRangeUnits == 3

\* Members named by position, at offset 0 or 4, of unknown size, of 2 bytes,
\* of 2^63 bytes or of u64::MAX bytes, bitfields or not.
RangeOptMembers(i) ==
    {OptMember(<<96 + i>>, o, s, b) :
        o \in {0, 4}, s \in {None, 2, I64_MAX + 1, U64_MAX}, b \in OptionSet({1})}

RangeOptAlignments == {None, 0, 4}

RangeMaxAligns == {0, 8, U64_MAX}

InitOptRange ==
    /\ pc = "start"
    /\ \/ \E n \in 0..MaxRangeUnits :
             \E ms \in {s \in [1..n -> UNION {RangeOptMembers(i) : i \in 1..n}] :
                           \A i \in 1..n : s[i] \in RangeOptMembers(i)} :
                /\ SortedByOffset(ms)
                /\ \E al \in RangeOptAlignments :
                      layout = StructLayout("Test", 12, al, ms)
       \/ layout = PaddedLayout
    /\ cache_line_size = 64
    /\ max_align \in RangeMaxAligns
    /\ fs_a = NoAnalysis
    /\ fs_b = NoAnalysis
    /\ opt = NoOptimized
    /\ opt2 = NoOptimized
    /\ DiffIdle
    /\ DwarfIdle

NextOptRange == Optimize

SpecOptRange == InitOptRange /\ [][NextOptRange]_vars

\* optimize_layout has returned, in either build.
OptReturned == pc \in {"optimized", "wrapped"}

\* The units of the layout in the order optimize_layout places them.
PlacedUnits == SortUnits(BuildUnits(layout.members, Max(max_align, 1)))

\* For every optimized member, the index of the unit it belongs to.
UnitOfMember(units) ==
    FlattenSeq([k \in 1..Len(units) |-> [i \in 1..Len(units[k].members) |-> k]])

\* x rounded up to a multiple of a, for a >= 1.
RoundUp(x, a) == ((x + a - 1) \div a) * a

\* The offsets of the units k, k + 1, ... when each is placed at the running
\* offset rounded up to its alignment and the running offset advances by its
\* size.
RECURSIVE RunningOffsets(_, _, _)
RunningOffsets(units, k, running) ==
    IF k > Len(units) THEN <<>>
    ELSE <<RoundUp(running, units[k].alignment)>>
         \o RunningOffsets(units, k + 1,
                RoundUp(running, units[k].alignment) + units[k].total_size)

\* The same, with the rounding giving u64::MAX when running + alignment - 1
\* exceeds u64::MAX and the running offset saturating at u64::MAX.
RECURSIVE SaturatingOffsets(_, _, _)
SaturatingOffsets(units, k, running) ==
    IF k > Len(units) THEN <<>>
    ELSE <<IF running + units[k].alignment - 1 > U64_MAX THEN U64_MAX
           ELSE RoundUp(running, units[k].alignment)>>
         \o SaturatingOffsets(units, k + 1,
                Min(U64_MAX,
                    (IF running + units[k].alignment - 1 > U64_MAX THEN U64_MAX
                     ELSE RoundUp(running, units[k].alignment))
                    + units[k].total_size))

\* The units are in descending order of alignment, then of size.
UnitsDescending(units) ==
    \A k \in 1..(Len(units) - 1) :
        \/ units[k].alignment > units[k + 1].alignment
        \/ /\ units[k].alignment = units[k + 1].alignment
           /\ units[k].total_size >= units[k + 1].total_size

\* Every optimized member is at the offset `offsets` gives for its unit.
PlacedAt(units, unit_of, offsets) ==
    /\ Len(opt.optimized_members) = Len(unit_of)
    /\ \A i \in 1..Len(unit_of) :
          /\ opt.optimized_members[i].offset = offsets[unit_of[i]]
          /\ \E j \in 1..Len(units[unit_of[i]].members) :
                units[unit_of[i]].members[j].name = opt.optimized_members[i].name

\* The padded struct: the int first at offset 0, size 8, 4 bytes saved.
PaddedOptimized ==
    (layout = PaddedLayout /\ max_align = 8) =>
        /\ opt.optimized_members[1].name = <<98>>
        /\ opt.optimized_members[1].offset = 0
        /\ opt.optimized_size = 8
        /\ opt.savings_bytes = 4

\* C23 as stated: the optimized offsets are exactly those obtained by
\* ordering the units by descending alignment, then descending size, and
\* placing each unit at the running offset rounded up to the unit's
\* alignment, the running offset then advancing by the unit's size; so every
\* unit's offset is a multiple of its alignment and unit alignments never
\* increase along optimized_members.  For char at 0, int at 4, char at 8,
\* size 12 and max_align 8 the int comes first at offset 0, optimized_size
\* is 8 and savings_bytes is 4.
C23_OffsetsAreRoundedRunningOffsets ==
    OptReturned =>
        /\ UnitsDescending(PlacedUnits)
        /\ PlacedAt(PlacedUnits, UnitOfMember(PlacedUnits),
                    RunningOffsets(PlacedUnits, 1, 0))
        /\ \A k \in 1..Len(PlacedUnits) :
              RunningOffsets(PlacedUnits, 1, 0)[k] % PlacedUnits[k].alignment = 0
        /\ PaddedOptimized

\* C23, amended: as stated, except that the rounding gives u64::MAX when the
\* running offset plus the alignment minus one exceeds u64::MAX and that the
\* running offset saturates at u64::MAX; so every unit's offset is a
\* multiple of its alignment or is u64::MAX.
C23_OffsetsAreSaturatingRunningOffsets ==
    OptReturned =>
        /\ UnitsDescending(PlacedUnits)
        /\ PlacedAt(PlacedUnits, UnitOfMember(PlacedUnits),
                    SaturatingOffsets(PlacedUnits, 1, 0))
        /\ \A k \in 1..Len(PlacedUnits) :
              \/ SaturatingOffsets(PlacedUnits, 1, 0)[k] % PlacedUnits[k].alignment = 0
              \/ SaturatingOffsets(PlacedUnits, 1, 0)[k] = U64_MAX
        /\ PaddedOptimized

\* Three units have been placed, the last one at the saturated offset, which
\* is not a multiple of its alignment.
C23_Witness ==
    /\ OptReturned
    /\ Len(PlacedUnits) = 3
    /\ opt.optimized_members[Len(opt.optimized_members)].offset = U64_MAX
    /\ U64_MAX % PlacedUnits[3].alignment # 0

\* C24: for every layout (any declared alignment, known or not) and every
\* max_align including 0, the reported struct_alignment satisfies
\* 1 <= struct_alignment <= max(max_align, 1), and every inferred member
\* alignment satisfies the same bounds.
C24_AlignmentsWithinBounds ==
    OptReturned =>
        /\ 1 <= opt.struct_alignment
        /\ opt.struct_alignment <= Max(max_align, 1)
        /\ \A i \in 1..Len(opt.original_members) :
              /\ 1 <= opt.original_members[i].alignment
              /\ opt.original_members[i].alignment <= Max(max_align, 1)
        /\ \A i \in 1..Len(opt.optimized_members) :
              /\ 1 <= opt.optimized_members[i].alignment
              /\ opt.optimized_members[i].alignment <= Max(max_align, 1)

(***************************************************************************)
(* SpecArray: one TypeResolver on a unit of an element type and an array   *)
(* type with up to MaxDimensions subrange children.                        *)
(***************************************************************************)
\* Largest number of subrange children of the generated array entry.
MaxDimensions == 2

\* A subrange child with DW_AT_count 2 or 3, with DW_AT_upper_bound 1 or
\* u64::MAX, with both or with neither.
ArraySubranges ==
    {Subrange(c, ub) : c \in {None, 2, 3}, ub \in {None, 1, U64_MAX}}

\* Element types of unknown size, of 4 bytes and of 2^63 bytes.
ArrayElements ==
    {TypeEntry("base", "string", <<105, 110, 116>>, sz, "absent", 0, <<>>) :
        sz \in {None, 4, I64_MAX + 1}}

\* Array entries with and without an element type and a declared byte size.
ArrayEntries ==
    {TypeEntry("array", "absent", <<>>, bs, r[1], r[2], dims) :
        bs \in {None, 24}, r \in {<<"absent", 0>>, <<"unit_ref", 1>>},
        dims \in UNION {[1..n -> ArraySubranges] : n \in 0..MaxDimensions}}

InitArray ==
    /\ pc = "start"
    /\ layout = StructLayout("Test", 0, None, <<>>)
    /\ cache_line_size = 64
    /\ max_align = 8
    /\ fs_a = NoAnalysis
    /\ fs_b = NoAnalysis
    /\ opt = NoOptimized
    /\ opt2 = NoOptimized
    /\ DiffIdle
    /\ \E e \in ArrayElements : \E a \in ArrayEntries :
          dwarf_unit = Unit(1, 8, <<e, a>>, <<>>)
    /\ calls = <<>>
    /\ resolved = NewResolver
    /\ structs = <<>>

NextArray == ResolveType \/ Enter \/ Return

SpecArray == InitArray /\ [][NextArray]_vars

\* The number of elements one dimension entry declares: DW_AT_count, else
\* DW_AT_upper_bound plus one; None when it declares neither.
DimensionCount(s) ==
    IF IsSome(s.count) THEN s.count
    ELSE IF IsSome(s.upper_bound) /\ s.upper_bound < U64_MAX THEN s.upper_bound + 1
    ELSE None

\* The total number of elements over all the dimension entries; None when
\* there is no entry or one of them declares no count.
RECURSIVE ElementCount(_)
ElementCount(dims) ==
    IF dims = <<>> THEN None
    ELSE IF ~IsSome(DimensionCount(Head(dims))) THEN None
    ELSE IF Tail(dims) = <<>> THEN DimensionCount(Head(dims))
    ELSE IF ~IsSome(ElementCount(Tail(dims))) THEN None
    ELSE DimensionCount(Head(dims)) * ElementCount(Tail(dims))

\* resolve_type has returned Ok for the array entry of the unit.
ArrayResolved ==
    /\ pc = "resolved"
    /\ resolved.offset = 2
    /\ resolved.result # <<>>
    /\ resolved.result[1].error = ""

\* The size of the element type of the array entry.
ElementSize ==
    IF dwarf_unit.types[2].type_attr = "unit_ref"
    THEN dwarf_unit.types[dwarf_unit.types[2].type_ref].byte_size
    ELSE None

\* C25: the resolved byte size of an array type is element size x element
\* count whenever both are known, the element count being the total number
\* of elements of the array over all of its dimension entries; when the
\* product does not fit in 64 bits the declared byte size of the array is
\* used instead (unknown if there is none), and the result never wraps.
C25_ArraySizeIsElementSizeTimesCount ==
    (ArrayResolved /\ IsSome(ElementSize)
        /\ IsSome(ElementCount(dwarf_unit.types[2].subranges))) =>
        resolved.result[1].size =
            IF ElementSize * ElementCount(dwarf_unit.types[2].subranges) <= U64_MAX
            THEN ElementSize * ElementCount(dwarf_unit.types[2].subranges)
            ELSE dwarf_unit.types[2].byte_size

(***************************************************************************)
(* SpecBitfield: find_structs on a unit of one struct whose members are    *)
(* bitfields of a 4-byte int, in either encoding of the bit position.      *)
(***************************************************************************)
\* Largest number of members of the generated struct entry.
MaxBitfields == 1

\* Members x: int with DW_AT_data_member_location absent, 0 or 4, with
\* DW_AT_bit_size absent, 3 or 32, DW_AT_data_bit_offset absent, 0, 8, 30 or
\* 40, and DW_AT_bit_offset absent, 0, 29 or 31.
BitfieldChildren ==
    {ChildDie("member", "string", <<120>>, "unit_ref", 1, loc, bs, dbo, bo) :
        loc \in {None, 0, 4}, bs \in {None, 3, 32},
        dbo \in {None, 0, 8, 30, 40}, bo \in {None, 0, 29, 31}}

BitfieldDwarfUnits ==
    {[Unit(1, 8, <<TypeEntry("base", "string", <<105, 110, 116>>, 4, "absent", 0, <<>>)>>,
           <<StructDie("structure", "string", <<83>>, 8, None, NoLocation, children)>>)
         EXCEPT !.endian = e] :
        e \in {"little", "big"},
        children \in UNION {[1..n -> BitfieldChildren] : n \in 0..MaxBitfields}}

InitBitfield ==
    /\ pc = "start"
    /\ layout = StructLayout("Test", 0, None, <<>>)
    /\ cache_line_size = 64
    /\ max_align = 8
    /\ fs_a = NoAnalysis
    /\ fs_b = NoAnalysis
    /\ opt = NoOptimized
    /\ opt2 = NoOptimized
    /\ DiffIdle
    /\ dwarf_unit \in BitfieldDwarfUnits
    /\ calls = <<>>
    /\ resolved = NewResolver
    /\ structs = Extraction(<<>>, 1, 1, <<>>, "")

NextBitfield == FindStructs \/ NextDie \/ NextChild \/ Enter \/ Return \/ ChildResolved

SpecBitfield == InitBitfield /\ [][NextBitfield]_vars

\* The bits [first, first + bit_size) lie outside the storage unit of the
\* member m.
OutsideStorageUnit(m, first) ==
    \/ first < 8 * m.offset
    \/ first + m.bit_size > 8 * m.offset + 8 * m.size

\* What C26 says of the member m extracted from the child c.
BitOffsetInsideStorageUnit(m, c) ==
    /\ IsSome(m.bit_offset) => m.bit_offset + m.bit_size <= 8 * m.size
    /\ (/\ IsSome(m.bit_size) /\ IsSome(m.size) /\ IsSome(m.offset)
        /\ IsSome(c.data_bit_offset)
        /\ OutsideStorageUnit(m, c.data_bit_offset)) => ~IsSome(m.bit_offset)
    /\ (/\ IsSome(m.bit_size) /\ IsSome(m.size) /\ IsSome(m.offset)
        /\ ~IsSome(c.data_bit_offset) /\ IsSome(c.bit_offset)
        /\ c.bit_offset + m.bit_size > 8 * m.size) => ~IsSome(m.bit_offset)

\* C26: whenever process_member records a bit_offset for a bitfield member,
\* bit_offset + bit_size <= 8 x the member's storage-unit byte size, for
\* both encodings of the position (explicit storage-unit byte offset plus
\* unit-relative bit offset, and absolute bit offset from the start of the
\* aggregate); a position that would fall outside the storage unit leaves
\* bit_offset unresolved and is never clamped to a value inside it.
C26_BitOffsetWithinStorageUnit ==
    (pc = "done" /\ structs.result = "ok" /\ structs.found # <<>>) =>
        \A k \in 1..Len(structs.found[1].members) :
            BitOffsetInsideStorageUnit(structs.found[1].members[k],
                                       dwarf_unit.dies[1].children[k])


(***************************************************************************)
(* Accounting of diff_layouts.                                             *)
(***************************************************************************)
\* The index pairs and the used flags match_structs ends with for a name.
MatchedOf(old_group, new_group) ==
    MatchRemaining(
        MatchByLocation([old_used |-> {}, new_used |-> {}, pairs |-> <<>>],
                        1, old_group, new_group),
        old_group, new_group)

\* No index of either side occurs in two pairs, the used flags are exactly
\* the paired indices, and they are indices of the groups.
PairsAreDisjoint(m, old_len, new_len) ==
    /\ \A a, b \in 1..Len(m.pairs) :
          a # b => (m.pairs[a][1] # m.pairs[b][1] /\ m.pairs[a][2] # m.pairs[b][2])
    /\ m.old_used = {m.pairs[k][1] : k \in 1..Len(m.pairs)}
    /\ m.new_used = {m.pairs[k][2] : k \in 1..Len(m.pairs)}
    /\ m.old_used \subseteq 1..old_len
    /\ m.new_used \subseteq 1..new_len

\* The structs of one name are split into pairs and unmatched structs, and
\* every pair is counted once as changed or as unchanged.
GroupAccounted(name) ==
    LET g == DiffGroup(name, old_layouts, new_layouts)
    IN /\ Len(OldGroup(name)) = Len(g.removed) + Len(g.changed) + g.unchanged
       /\ Len(NewGroup(name)) = Len(g.added) + Len(g.changed) + g.unchanged
       /\ (OldGroup(name) # <<>> /\ NewGroup(name) # <<>>) =>
              PairsAreDisjoint(MatchedOf(OldGroup(name), NewGroup(name)),
                               Len(OldGroup(name)), Len(NewGroup(name)))

\* C27: diff_layouts accounts for every input struct exactly once: no struct
\* takes part in two pairs, every old struct is in exactly one of removed,
\* changed and unchanged and every new struct in exactly one of added,
\* changed and unchanged, so len(old) = |removed| + |changed| +
\* unchanged_count and len(new) = |added| + |changed| + unchanged_count.
C27_EveryStructAccountedOnce ==
    pc = "diffed" =>
        /\ Len(old_layouts) = Len(diff.removed) + Len(diff.changed) + diff.unchanged_count
        /\ Len(new_layouts) = Len(diff.added) + Len(diff.changed) + diff.unchanged_count
        /\ \A name \in DiffNames : GroupAccounted(name)

\* Two old and two new structs of one name without location go through the
\* greedy matching, which pairs one old struct with one new struct and leaves
\* the other two unpaired: one unchanged, one removed, one added.
C27_Witness ==
    /\ pc = "diffed"
    /\ Len(old_layouts) = 2 /\ Len(new_layouts) = 2
    /\ old_layouts[1].name = old_layouts[2].name
    /\ new_layouts[1].name = old_layouts[1].name
    /\ new_layouts[2].name = old_layouts[1].name
    /\ \A i \in 1..2 : LocationKey(old_layouts[i]) = NoLocation
                        /\ LocationKey(new_layouts[i]) = NoLocation
    /\ Len(diff.removed) = 1
    /\ Len(diff.added) = 1
    /\ diff.changed = <<>>
    /\ diff.unchanged_count = 1


(***************************************************************************)
(* The cache of TypeResolver.                                              *)
(***************************************************************************)
\* The rest of an arm once its nested call returned.
ResolveOuter(u, entry, is_atomic, inner) ==
    IF inner.error # "" THEN inner ELSE WithTypeRef(u, entry, is_atomic, inner)

\* resolve_type_inner as a function of the unit: what a call returns, an
\* error of a nested call being returned unchanged.
RECURSIVE ResolveTypeInner(_, _, _, _)
ResolveTypeInner(u, offset, depth, is_atomic) ==
    IF ExceedsCap(depth) THEN TypeOk(SentinelName, None, is_atomic)
    ELSE IF ~HasEntry(u, offset) THEN TypeErr("Failed to get type entry")
    ELSE IF u.types[offset].tag \notin ReferringTags
    THEN LeafResult(u, u.types[offset], is_atomic)
    ELSE IF u.types[offset].tag = "typedef" /\ TypeNameError(u.types[offset]) # ""
    THEN TypeErr(TypeNameError(u.types[offset]))
    ELSE IF IsSome(GetTypeRef(u, u.types[offset]))
    THEN ResolveOuter(u, u.types[offset], is_atomic,
             ResolveTypeInner(u, GetTypeRef(u, u.types[offset]), depth + 1,
                              InnerAtomicArg(u.types[offset].tag, is_atomic)))
    ELSE WithoutTypeRef(u, u.types[offset], is_atomic)

\* What a resolver with an empty cache returns for an offset.
FreshResolve(offset) == ResolveTypeInner(dwarf_unit, offset, 0, FALSE)

\* The value a finished call of resolve_type returned is the value of a
\* fresh resolver, and every cache entry is the successful fresh value of
\* its key.
CacheTransparent ==
    /\ (pc = "resolved" /\ resolved.result # <<>>) =>
           resolved.result[1] = FreshResolve(resolved.offset)
    /\ \A o \in DOMAIN resolved.cache :
           /\ resolved.cache[o] = FreshResolve(o)
           /\ resolved.cache[o].error = ""

\* A step keeps every entry of the cache as it is and adds at most the
\* entry of the requested offset, with the value the call returns.
CacheOnlyGrows ==
    /\ DOMAIN resolved.cache \subseteq DOMAIN resolved'.cache
    /\ \A o \in DOMAIN resolved.cache : resolved'.cache[o] = resolved.cache[o]
    /\ \A o \in DOMAIN resolved'.cache \ DOMAIN resolved.cache :
           /\ o = resolved'.offset
           /\ pc' = "resolved"
           /\ resolved'.result = <<resolved'.cache[o]>>
           /\ resolved'.result[1].error = ""

\* C28: the cache of a TypeResolver is transparent: for any sequence of
\* resolve_type calls on one resolver the value returned for an offset is
\* the value a fresh resolver with an empty cache returns for it; the cache
\* only gains entries, each keyed by a requested offset that resolved
\* successfully, and an existing entry is never changed.
C28_CacheIsTransparent == [](CacheTransparent) /\ [][CacheOnlyGrows]_vars

\* Both entries of a unit are cached, the second an atomic wrapper of the
\* first: the entry of the first says not atomic, the entry of the second
\* atomic, and the last request was for the first.
C28_Witness ==
    /\ pc = "resolved"
    /\ Len(dwarf_unit.types) = 2
    /\ dwarf_unit.types[2].tag = "atomic"
    /\ GetTypeRef(dwarf_unit, dwarf_unit.types[2]) = 1
    /\ DOMAIN resolved.cache = {1, 2}
    /\ ~resolved.cache[1].is_atomic
    /\ resolved.cache[2].is_atomic
    /\ resolved.offset = 1
    /\ resolved.result = <<resolved.cache[1]>>


(***************************************************************************)
(* SpecInspect: the loop body of run_inspect on one layout, any number of  *)
(* times: analyze_layout, then, with --warn-false-sharing, the result of   *)
(* analyze_false_sharing attached to the metrics.                          *)
(***************************************************************************)
\* Largest number of members of a generated layout.
MaxInspectMembers == 2

\* The i-th member of a generated layout: plain or atomic, with or without
\* offset and size, the last offset the largest a u64 holds.
InspectMembers(i) ==
    {MemberLayout(<<96 + i>>, t, o, s, None, None) :
        t \in FsTypeNames, o \in {None, 0, 8, U64_MAX}, s \in {None, 0, 4, 8}}

InspectCacheLineSizes == {0, 4, 64}

InitInspect ==
    /\ pc = "start"
    /\ \/ \E n \in 0..MaxInspectMembers :
             \E ms \in [1..n -> UNION {InspectMembers(i) : i \in 1..n}] :
                /\ \A i \in 1..n : ms[i] \in InspectMembers(i)
                /\ SortedByOffset(ms)
                /\ layout = StructLayout("TestStruct", 16, None, ms)
       \/ layout = PaddedLayout
    /\ cache_line_size \in InspectCacheLineSizes
    /\ max_align = 8
    /\ fs_a = NoAnalysis
    /\ fs_b = NoAnalysis
    /\ opt = NoOptimized
    /\ opt2 = NoOptimized
    /\ DiffIdle
    /\ DwarfIdle

\* layout.metrics.false_sharing = Some(fs_analysis)
Attached(l, fs) == [l EXCEPT !.metrics.false_sharing = <<fs>>]

\* let fs_analysis = analyze_false_sharing(layout, cache_line_size);
\* layout.metrics.false_sharing = Some(fs_analysis), after analyze_layout
\* ran.  An overflow aborts the run in a build with overflow checks and
\* wraps around in a build without.
AttachFalseSharing ==
    /\ pc \in {"analyzed", "attached"}
    /\ IF FalseSharingDividesByZero(layout, cache_line_size)
       THEN /\ pc' = "aborted"
            /\ UNCHANGED <<layout, fs_a>>
       ELSE \E order \in IterationOrders(
                        CacheLineKeys(AtomicMembers(layout.members, cache_line_size))) :
               \/ /\ FalseSharingOverflows(layout, cache_line_size, order)
                  /\ pc' = "aborted"
                  /\ UNCHANGED <<layout, fs_a>>
               \/ /\ fs_a' = FalseSharingAnalysis(layout, cache_line_size, order)
                  /\ layout' = Attached(layout, fs_a')
                  /\ pc' = "attached"
    /\ UNCHANGED <<cache_line_size, max_align, fs_b, opt, opt2>>
    /\ UNCHANGED <<diffVars, dwarfVars>>

NextInspect == AnalyzeLayout \/ AttachFalseSharing

SpecInspect == InitInspect /\ [][NextInspect]_vars

\* The metrics analyze_layout computes from a layout that has nothing but
\* the size and the members.
MetricsOf(size, members, cls) ==
    ComputeMetrics(StructLayout("", size, None, members), cls)

\* After a run of analyze_layout the metrics are the computed block with no
\* false-sharing result; after an attachment they are that block with the
\* result of analyze_false_sharing.
MetricsReplaced ==
    /\ pc = "analyzed" =>
           /\ layout.metrics.false_sharing = <<>>
           /\ layout.metrics = MetricsOf(layout.size, layout.members, cache_line_size)
    /\ pc = "attached" =>
           /\ layout.metrics.false_sharing = <<fs_a>>
           /\ [layout.metrics EXCEPT !.false_sharing = <<>>]
                  = MetricsOf(layout.size, layout.members, cache_line_size)
    /\ pc \in {"start", "assert_failed"} => layout.metrics = DefaultMetrics

\* A step changes nothing of the layout but its metrics.
OnlyMetricsChange ==
    /\ layout'.name = layout.name
    /\ layout'.size = layout.size
    /\ layout'.alignment = layout.alignment
    /\ layout'.members = layout.members
    /\ layout'.source_location = layout.source_location

\* C29: analyze_layout replaces the whole metrics block and nothing else:
\* after any sequence of analyze_layout runs and false-sharing attachments
\* metrics.false_sharing is present only if a result was attached after the
\* latest run of analyze_layout, every other metrics field is the value
\* computed from the size, the members and the cache-line size, and name,
\* size, alignment, members and source location are unchanged.
C29_MetricsBlockReplaced == [](MetricsReplaced) /\ [][OnlyMetricsChange]_vars

\* analyze_layout ran again after a false-sharing result with atomic members
\* was attached: the result is gone, the holes are reported as before.
C29_Witness ==
    /\ pc = "analyzed"
    /\ fs_a.atomic_members # <<>>
    /\ layout.metrics.false_sharing = <<>>
    /\ layout.metrics.padding_bytes > 0


(***************************************************************************)
(* SpecOptGroups: one call of optimize_layout on layouts of members with   *)
(* distinct names whose bitfields may have storage units of different      *)
(* sizes at one offset, as struct { char a : 3; short b : 5; char c; }     *)
(* has, with and without a cap of 1 on the alignment.                      *)
(***************************************************************************)
\* Largest number of members of a generated layout.
MaxGroupMembers == 3

\* The i-th member of a generated layout.
GroupMembers(i) ==
    {OptMember(<<96 + i>>, o, s, b) :
        o \in {0, 1, 2}, s \in {1, 2, 4}, b \in OptionSet({3})}

GroupMaxAligns == {1, 8}

InitOptGroups ==
    /\ pc = "start"
    /\ \E n \in 0..MaxGroupMembers :
          \E ms \in [1..n -> UNION {GroupMembers(i) : i \in 1..n}] :
             /\ \A i \in 1..n : ms[i] \in GroupMembers(i)
             /\ SortedByOffset(ms)
             /\ layout = StructLayout("Test", 4, None, ms)
    /\ cache_line_size = 64
    /\ max_align \in GroupMaxAligns
    /\ fs_a = NoAnalysis
    /\ fs_b = NoAnalysis
    /\ opt = NoOptimized
    /\ opt2 = NoOptimized
    /\ DiffIdle
    /\ DwarfIdle

NextOptGroups == Optimize

SpecOptGroups == InitOptGroups /\ [][NextOptGroups]_vars

(***************************************************************************)
(* Physical validity of the optimized arrangement.                         *)
(***************************************************************************)
\* The byte ranges [offset, offset + size) of two members do not meet.
DisjointRanges(a, b) ==
    a.offset + a.size <= b.offset \/ b.offset + b.size <= a.offset

\* Members placed at different offsets occupy disjoint byte ranges, and
\* every member ends at or before optimized_size.
PhysicallyValid(o) ==
    /\ \A i, j \in 1..Len(o.optimized_members) :
          o.optimized_members[i].offset # o.optimized_members[j].offset
              => DisjointRanges(o.optimized_members[i], o.optimized_members[j])
    /\ \A i \in 1..Len(o.optimized_members) :
          o.optimized_members[i].offset + o.optimized_members[i].size
              <= o.optimized_size

\* C30: optimize_layout produces a physically valid arrangement for every
\* input layout: two optimized members placed at different offsets occupy
\* disjoint byte ranges [offset, offset + size), and every optimized member
\* ends at or before optimized_size (the members of one bitfield group share
\* their offset and may share bytes only with each other).
C30_OptimizedArrangementIsValid == OptReturned => PhysicallyValid(opt)

====
